---- MODULE Spec2Model ----
(***************************************************************************)
(* Model of the SHL recommendation engine's resolution pipeline            *)
(* (src/app/core/logic.py): the Answer Line Parser (_parse_llm_answer),    *)
(* the Name Resolver (_find_data_by_names), the Test-Type Normalizer       *)
(* (_parse_test_type) and get_recommendations, which chains them.          *)
(*                                                                         *)
(* Python strings are sequences of one-character strings, so that the      *)
(* regular expressions, strip/split and json.loads are computed character  *)
(* by character.  Python values of different types (NaN, str, int, float,  *)
(* list) are records of one shape, [t, s, n, l], tagged by t.              *)
(***************************************************************************)
EXTENDS Integers, Sequences, FiniteSets, TLC

VARIABLES
    pc,                \* position of start-up or of the request in get_recommendations
    csv_path,          \* the workbook at self.csv_path: readable or not, its rows
    dataframe,         \* self.dataframe: the catalog rows, in load order
    llm_answer,        \* the generation oracle's raw answer
    assessment_names,  \* the parser's output
    results,           \* full_products, the resolver's output
    raised,            \* the exception leaving start-up or get_recommendations, or "none"
    test_type_value,   \* argument of a direct _parse_test_type call
    test_type_result,  \* outcome of that call
    numpy_strict,      \* the installed numpy raises on bool() of an empty array
    in_flight,         \* the calls of get_recommendations under way together,
                       \* each with its own locals
    response,          \* what POST /recommend answered: status, detail, records
    pydantic_v1,       \* the installed pydantic coerces numbers to str (1.x)
    steps,             \* the steps get_recommendations announced for the current
                       \* query: "A" oracle call, "B" parsing, "C" lookup
    api_health,        \* run_tests.py: what test_api_health() returned, if called
    test_file,         \* run_tests.py: the file at TEST_FILE
    queries_df,        \* run_tests.py: df, the loaded test queries
    results_list,      \* run_tests.py: the output rows collected so far
    exchanges,         \* run_tests.py: the queries posted to /recommend, each
                       \* with the outcome of its request
    output_file,       \* run_tests.py: the file at OUTPUT_FILE
    site,              \* scraper.py: the catalog site, page after page
    browser_page,      \* scraper.py: the catalog page the browser shows
    page_number,       \* scraper.py: page_number of scrape_all_product_urls
    all_product_urls,  \* scraper.py: all_product_urls, the hrefs collected
    visited,           \* scraper.py: the pages announced by "Scraping page N..."
    product_urls,      \* scraper.py: product_urls given to scrape_all_products
    fetched,           \* scraper.py: the product pages the browser was sent to,
                       \* as they came
    scraped_data       \* scraper.py: scraped_data, the records collected

\* the state of the test runner (src/scripts/run_tests.py)
runner == <<api_health, test_file, queries_df, results_list, exchanges, output_file>>

\* the state of the scraper (src/scripts/scraper.py)
scraper == <<site, browser_page, page_number, all_product_urls, visited, product_urls,
             fetched, scraped_data>>

\* what the one-request steps below never touch
elsewhere == <<in_flight, response, pydantic_v1, runner, scraper>>

\* what the steps outside get_recommendations never touch
outside == <<elsewhere, steps>>

vars == <<pc, csv_path, dataframe, llm_answer, assessment_names, results, raised,
          test_type_value, test_type_result, numpy_strict, outside>>

-----------------------------------------------------------------------------
(* Bounds *)

MaxLineLen == 5        \* length of a raw answer given to the parser alone
MaxAnswerLen == 3      \* length of a raw answer in the full pipeline
MaxRows == 2           \* rows of the catalog
MaxCellLen == 4        \* length of a raw test_type string cell
MaxCatLen == 2         \* length of one category string
MaxListLen == 2        \* categories in a test_type list
MaxNameLen == 2        \* characters of the name of an annotated line
MaxAnnotations == 2    \* annotations of an annotated line
MaxTailLen == 1        \* characters after " - " in an annotated line
MaxQueries == 2        \* queries in the test file
MaxRecs == 2           \* recommendations in one answer of the API
MaxPages == 3           \* pages of the catalog site
MaxUrls == 2            \* product URLs given to scrape_all_products
MaxRequests == 2       \* calls of get_recommendations under way together

-----------------------------------------------------------------------------
(* Python values *)

Value(tag, str, num, lst) == [t |-> tag, s |-> str, n |-> num, l |-> lst]
NaN == Value("nan", <<>>, 0, <<>>)
PyNone == Value("none", <<>>, 0, <<>>)
PyStr(chars) == Value("str", chars, 0, <<>>)
PyInt(k) == Value("int", <<>>, k, <<>>)
PyFloat(tenths) == Value("float", <<>>, tenths, <<>>)
PyList(elems) == Value("list", <<>>, 0, elems)

\* outcome of a call: the value returned, or the exception raised
Returned(v) == [exc |-> "none", val |-> v]
Raised(e) == [exc |-> e, val |-> PyNone]

-----------------------------------------------------------------------------
(* str helpers *)

\* the sequences over S of length at most n
SeqsUpTo(S, n) == UNION {[1..k -> S] : k \in 0..n}

IsSpace(c) == c \in {" ", "\t", "\n"}
IsDigit(c) == c \in {"0", "1", "2", "3", "4", "5", "6", "7", "8", "9"}

\* first index >= i whose character is not in the class, Len(s)+1 if none
RECURSIVE SkipSpaces(_, _)
SkipSpaces(s, i) ==
    IF i <= Len(s) /\ IsSpace(s[i]) THEN SkipSpaces(s, i + 1) ELSE i

RECURSIVE SkipDigits(_, _)
SkipDigits(s, i) ==
    IF i <= Len(s) /\ IsDigit(s[i]) THEN SkipDigits(s, i + 1) ELSE i

From(s, i) == SubSeq(s, i, Len(s))

\* str.strip(chars), one side at a time
RECURSIVE LStripChars(_, _)
LStripChars(s, chars) ==
    IF s # <<>> /\ s[1] \in chars THEN LStripChars(Tail(s), chars) ELSE s

RECURSIVE RStripChars(_, _)
RStripChars(s, chars) ==
    IF s # <<>> /\ s[Len(s)] \in chars
    THEN RStripChars(SubSeq(s, 1, Len(s) - 1), chars) ELSE s

StripChars(s, chars) == RStripChars(LStripChars(s, chars), chars)

\* str.strip()
Strip(s) == StripChars(s, {" ", "\t", "\n"})

\* index of the first occurrence of c in s at or after i, 0 if none
RECURSIVE IndexFrom(_, _, _)
IndexFrom(s, c, i) ==
    IF i > Len(s) THEN 0
    ELSE IF s[i] = c THEN i ELSE IndexFrom(s, c, i + 1)

Contains(s, c) == IndexFrom(s, c, 1) # 0

\* str.split(sep) for a one-character separator
RECURSIVE Split(_, _)
Split(s, sep) ==
    LET k == IndexFrom(s, sep, 1)
    IN IF k = 0 THEN <<s>>
       ELSE <<SubSeq(s, 1, k - 1)>> \o Split(From(s, k + 1), sep)

\* str.replace(old, new) for one-character strings
Replace(s, old, new) == [i \in 1..Len(s) |-> IF s[i] = old THEN new ELSE s[i]]

-----------------------------------------------------------------------------
(* _parse_llm_answer *)

\* re.sub(r'^\s*[\d]+[\.)]\s*', '', line)
StripOrdinal(line) ==
    LET i == SkipSpaces(line, 1)
        j == SkipDigits(line, i)
    IN IF j > i /\ j <= Len(line) /\ line[j] \in {".", ")"}
       THEN From(line, SkipSpaces(line, j + 1))
       ELSE line

\* StripBullet with a character class that holds the hyphen only
StripBulletHyphenOnly(line) ==
    LET i == SkipSpaces(line, 1)
    IN IF i <= Len(line) /\ line[i] = "-"
       THEN From(line, SkipSpaces(line, i + 1))
       ELSE line

\* re.sub(r'^\s*[-*<U+2022>]\s*', '', cleaned); "BULLET" stands for the
\* character U+2022
StripBullet(line) ==
    LET i == SkipSpaces(line, 1)
    IN IF i <= Len(line) /\ line[i] \in {"-", "*", "BULLET"}
       THEN From(line, SkipSpaces(line, i + 1))
       ELSE line

\* removes the first parenthesized group only
RECURSIVE RemoveFirstParens(_)
RemoveFirstParens(s) ==
    IF s = <<>> THEN <<>>
    ELSE LET open == SkipSpaces(s, 1)
             close == IF open <= Len(s) /\ s[open] = "("
                      THEN IndexFrom(s, ")", open + 1) ELSE 0
         IN IF close # 0
            THEN From(s, close + 1)
            ELSE <<s[1]>> \o RemoveFirstParens(Tail(s))

\* re.sub(r'\s*\([^)]*\)', '', cleaned): every non-overlapping match, left to
\* right; a match starts at a run of whitespace followed by '(' and ends at
\* the first ')' after it
RECURSIVE RemoveParens(_)
RemoveParens(s) ==
    IF s = <<>> THEN <<>>
    ELSE LET open == SkipSpaces(s, 1)
             close == IF open <= Len(s) /\ s[open] = "("
                      THEN IndexFrom(s, ")", open + 1) ELSE 0
         IN IF close # 0
            THEN RemoveParens(From(s, close + 1))
            ELSE <<s[1]>> \o RemoveParens(Tail(s))

\* cuts at the last hyphen of the text instead of the first
RECURSIVE LastIndex(_, _, _)
LastIndex(s, c, i) ==
    IF i = 0 THEN 0 ELSE IF s[i] = c THEN i ELSE LastIndex(s, c, i - 1)

TruncateAtLastHyphen(s) ==
    LET h == LastIndex(s, "-", Len(s))
    IN IF h = 0 THEN s
       ELSE RStripChars(SubSeq(s, 1, h - 1), {" ", "\t", "\n"})

\* re.sub(r'\s*-\s*.*$', '', cleaned): the leftmost match starts at the
\* whitespace run before the first '-' and runs to the end of the line
TruncateAtHyphen(s) ==
    LET h == IndexFrom(s, "-", 1)
    IN IF h = 0 THEN s
       ELSE RStripChars(SubSeq(s, 1, h - 1), {" ", "\t", "\n"})

CleanLine(line) ==
    Strip(TruncateAtHyphen(Strip(RemoveParens(StripBullet(StripOrdinal(line))))))

\* appends the cleaned text of every line, empty or not
RECURSIVE CleanLinesKeepAll(_)
CleanLinesKeepAll(lines) ==
    IF lines = <<>> THEN <<>>
    ELSE <<CleanLine(Head(lines))>> \o CleanLinesKeepAll(Tail(lines))

RECURSIVE CleanLines(_)
CleanLines(lines) ==
    IF lines = <<>> THEN <<>>
    ELSE LET line == Head(lines)
             cleaned == CleanLine(line)
         IN IF Strip(line) = <<>> THEN CleanLines(Tail(lines))
            ELSE IF cleaned # <<>> THEN <<cleaned>> \o CleanLines(Tail(lines))
            ELSE CleanLines(Tail(lines))

\* folds the case of the answer before cleaning it
ParseCaseFolded(answer) ==
    CleanLines(Split(Strip([i \in 1..Len(answer) |->
                               IF answer[i] = "A" THEN "a" ELSE answer[i]]), "\n"))

_parse_llm_answer(answer) == CleanLines(Split(Strip(answer), "\n"))

-----------------------------------------------------------------------------
(* json.loads, for documents made of arrays, strings without escapes,      *)
(* integers and null                                                       *)

DigitValue(c) ==
    CASE c = "0" -> 0 [] c = "1" -> 1 [] c = "2" -> 2 [] c = "3" -> 3
      [] c = "4" -> 4 [] c = "5" -> 5 [] c = "6" -> 6 [] c = "7" -> 7
      [] c = "8" -> 8 [] c = "9" -> 9

RECURSIVE DecimalValue(_)
DecimalValue(digits) ==
    IF digits = <<>> THEN 0
    ELSE 10 * DecimalValue(SubSeq(digits, 1, Len(digits) - 1))
         + DigitValue(digits[Len(digits)])

RECURSIVE SkipJsonWs(_, _)
SkipJsonWs(s, i) ==
    IF i <= Len(s) /\ s[i] \in {" ", "\t", "\n", "\r"}
    THEN SkipJsonWs(s, i + 1) ELSE i

ScanFail == [ok |-> FALSE, val |-> PyNone, end |-> 0]
ScanOk(v, e) == [ok |-> TRUE, val |-> v, end |-> e]

\* NUMBER_RE: -?(0|[1-9]\d*), no fraction and no exponent
ScanNumber(s, i) ==
    LET d == IF s[i] = "-" THEN i + 1 ELSE i
        e == IF d <= Len(s) /\ s[d] = "0" THEN d + 1 ELSE SkipDigits(s, d)
        magnitude == DecimalValue(SubSeq(s, d, e - 1))
    IN IF e = d THEN ScanFail
       ELSE ScanOk(PyInt(IF d = i THEN magnitude ELSE 0 - magnitude), e)

RECURSIVE ScanOnce(_, _), ScanArray(_, _, _)
\* json.scanner.py_make_scanner._scan_once
ScanOnce(s, i) ==
    IF i > Len(s) THEN ScanFail
    ELSE IF s[i] = "\""
    THEN LET close == IndexFrom(s, "\"", i + 1)
         IN IF close = 0 THEN ScanFail
            ELSE ScanOk(PyStr(SubSeq(s, i + 1, close - 1)), close + 1)
    ELSE IF s[i] = "["
    THEN LET j == SkipJsonWs(s, i + 1)
         IN IF j <= Len(s) /\ s[j] = "]" THEN ScanOk(PyList(<<>>), j + 1)
            ELSE ScanArray(s, j, <<>>)
    ELSE IF s[i] = "n"
    THEN IF i + 3 <= Len(s) /\ SubSeq(s, i, i + 3) = <<"n", "u", "l", "l">>
         THEN ScanOk(PyNone, i + 4) ELSE ScanFail
    ELSE ScanNumber(s, i)

\* json.decoder.JSONArray, after the opening bracket of a non-empty array
ScanArray(s, i, values) ==
    LET v == ScanOnce(s, i)
        j == SkipJsonWs(s, v.end)
    IN IF ~v.ok \/ j > Len(s) THEN ScanFail
       ELSE IF s[j] = "]" THEN ScanOk(PyList(Append(values, v.val)), j + 1)
       ELSE IF s[j] # "," THEN ScanFail
       ELSE ScanArray(s, SkipJsonWs(s, j + 1), Append(values, v.val))

\* json.loads: one value between optional whitespace, nothing after it
json_loads(s) ==
    LET v == ScanOnce(s, SkipJsonWs(s, 1))
    IN IF v.ok /\ SkipJsonWs(s, v.end) = Len(s) + 1
       THEN Returned(v.val) ELSE Raised("JSONDecodeError")

-----------------------------------------------------------------------------
(* _parse_test_type *)

\* pd.isna of a scalar
IsMissing(v) == v.t \in {"nan", "none"}

\* SplitItems without the second strip: the quotes stay on the items
SplitItemsKeepQuotes(cleaned, sep) ==
    LET parts == Split(cleaned, sep)
    IN [k \in 1..Len(parts) |-> PyStr(Strip(parts[k]))]

\* [item.strip().strip("'\"") for item in cleaned.split(sep)]
SplitItems(cleaned, sep) ==
    LET parts == Split(cleaned, sep)
    IN [k \in 1..Len(parts) |-> PyStr(StripChars(Strip(parts[k]), {"'", "\""}))]

\* the except-branch of _parse_test_type
FallbackTestType(s) ==
    LET cleaned == StripChars(s, {"[", "]", "'", "\""})
    IN IF Contains(cleaned, ";") THEN PyList(SplitItems(cleaned, ";"))
       ELSE IF Contains(cleaned, ",") THEN PyList(SplitItems(cleaned, ","))
       ELSE IF cleaned # <<>> THEN PyList(<<PyStr(cleaned)>>)
       ELSE PyList(<<>>)

\* `if pd.isna(test_type_value):` -- of a list, pd.isna is an array and its
\* truth value is an error for two or more elements, the element's for one,
\* and for none False or an error, depending on the numpy installed
_parse_test_type(v, strict) ==
    IF v.t = "list"
    THEN IF Len(v.l) >= 2 \/ (Len(v.l) = 0 /\ strict) THEN Raised("ValueError")
         ELSE IF Len(v.l) = 1 /\ IsMissing(v.l[1]) THEN Returned(PyList(<<>>))
         ELSE Returned(v)
    ELSE IF IsMissing(v) THEN Returned(PyList(<<>>))
    ELSE IF v.t = "str"
    THEN LET parsed == json_loads(Replace(v.s, ";", ","))
         IN IF parsed.exc = "none" THEN parsed
            ELSE Returned(FallbackTestType(v.s))
    ELSE Returned(PyList(<<>>))

-----------------------------------------------------------------------------
(* Series.str.contains(name, case=False, na=False): pandas compiles the     *)
(* candidate as a regular expression (regex=True is the default) with       *)
(* re.IGNORECASE and searches every name with it.  Patterns are made of     *)
(* letters, '.' and '[' (no ']' and no other metacharacter): a '[' then     *)
(* opens a character set that is never closed, which re.compile rejects.    *)

Lower(c) == IF c = "A" THEN "a" ELSE IF c = "B" THEN "b" ELSE c

RegexCompiles(pat) == ~Contains(pat, "[")

\* the pattern element pat_c matches the character c
RegexCharMatches(pat_c, c) ==
    IF pat_c = "." THEN c # "\n" ELSE Lower(pat_c) = Lower(c)

\* re.compile(pat, re.IGNORECASE).search(text) is not None
RegexSearch(pat, text) ==
    \E start \in 0..(Len(text) - Len(pat)) :
        \A k \in 1..Len(pat) : RegexCharMatches(pat[k], text[start + k])

\* indices of the rows selected by the boolean mask, in load order
Matches(df, name) == {i \in 1..Len(df) : RegexSearch(name, df[i].name.s)}

-----------------------------------------------------------------------------
(* str() and int() of a cell *)

DigitChar(d) ==
    CASE d = 0 -> "0" [] d = 1 -> "1" [] d = 2 -> "2" [] d = 3 -> "3"
      [] d = 4 -> "4" [] d = 5 -> "5" [] d = 6 -> "6" [] d = 7 -> "7"
      [] d = 8 -> "8" [] d = 9 -> "9"

RECURSIVE DecimalDigits(_)
DecimalDigits(k) ==
    IF k < 10 THEN <<DigitChar(k)>>
    ELSE Append(DecimalDigits(k \div 10), DigitChar(k % 10))

\* str(v) of a str, an int or a float (held in tenths), none of them negative
str(v) ==
    IF v.t = "str" THEN v.s
    ELSE IF v.t = "int" THEN DecimalDigits(v.n)
    ELSE DecimalDigits(v.n \div 10) \o <<".", DigitChar(v.n % 10)>>

\* int(v): an int is itself, a float is truncated, a str must be decimal
\* digits between optional whitespace, anything else is a ValueError
int(v) ==
    IF v.t = "int" THEN Returned(PyInt(v.n))
    ELSE IF v.t = "float" THEN Returned(PyInt(v.n \div 10))
    ELSE LET digits == Strip(v.s)
         IN IF digits # <<>> /\ SkipDigits(digits, 1) = Len(digits) + 1
            THEN Returned(PyInt(DecimalValue(digits)))
            ELSE Raised("ValueError")

-----------------------------------------------------------------------------
(* _find_data_by_names *)

\* str(row[field]) if pd.notna(row[field]) else default
TextField(cell, default) ==
    IF IsMissing(cell) THEN PyStr(default) ELSE PyStr(str(cell))

\* int(row['duration']) if pd.notna(row['duration']) else 0
DurationField(cell) ==
    IF IsMissing(cell) THEN Returned(PyInt(0)) ELSE int(cell)

\* the product_dict literal; its values are evaluated in source order, so a
\* failing int() is raised before _parse_test_type is called
ProductDict(row, strict) ==
    LET duration == DurationField(row.duration)
        test_type == _parse_test_type(row.test_type, strict)
    IN IF duration.exc # "none" THEN Raised(duration.exc)
       ELSE IF test_type.exc # "none" THEN Raised(test_type.exc)
       ELSE [exc |-> "none",
             val |-> [name |-> TextField(row.name, <<>>),
                      url |-> TextField(row.url, <<>>),
                      description |-> TextField(row.description, <<>>),
                      adaptive_support |-> TextField(row.adaptive_support, <<"N", "o">>),
                      duration |-> duration.val,
                      remote_support |-> TextField(row.remote_support, <<"N", "o">>),
                      test_type |-> test_type.val]]

Min(S) == CHOOSE x \in S : \A y \in S : x <= y

\* the loop over names: the first exception ends the call and discards the
\* records collected so far
RECURSIVE FindData(_, _, _, _)
FindData(names, df, strict, found) ==
    IF names = <<>> THEN [exc |-> "none", val |-> found]
    ELSE LET name == Head(names)
         IN IF ~RegexCompiles(name) THEN [exc |-> "re.error", val |-> <<>>]
            ELSE IF Matches(df, name) = {}
            THEN FindData(Tail(names), df, strict, found)
            ELSE LET product == ProductDict(df[Min(Matches(df, name))], strict)
                 IN IF product.exc # "none"
                    THEN [exc |-> product.exc, val |-> <<>>]
                    ELSE FindData(Tail(names), df, strict, Append(found, product.val))

\* a frame left without rows has an all-NaN (float64) name column, on which
\* the .str accessor raises AttributeError
_find_data_by_names(names, df, strict) ==
    IF df = <<>> /\ names # <<>> THEN [exc |-> "AttributeError", val |-> <<>>]
    ELSE FindData(names, df, strict, <<>>)

-----------------------------------------------------------------------------
(* Inputs *)

\* characters of an oracle answer in the full pipeline
AnswerChars == {"a", "A", ".", "[", "\n"}

\* characters of an answer given to the parser alone
LineChars == {"a", "1", ")", "(", "-", "*", " ", "\n"}

Row(name, url, description, adaptive, duration, remote, test_type) ==
    [name |-> name, url |-> url, description |-> description,
     adaptive_support |-> adaptive, duration |-> duration,
     remote_support |-> remote, test_type |-> test_type]

Yes == PyStr(<<"Y", "e", "s">>)
PseudoListCell == PyStr(<<"[", "'", "a", "'", ";", " ", "'", "b", "'", "]">>)

CatalogNames == {PyStr(<<"A", "b">>), PyStr(<<"a", ".">>)}

CompleteRow(name) ==
    Row(name, PyStr(<<"u">>), PyStr(<<"d">>), Yes, PyFloat(300), Yes, PseudoListCell)

\* rows of the pipeline's catalogs: complete, all optional cells missing,
\* and with a duration cell that is not a number
CatalogRows ==
    {CompleteRow(name) : name \in CatalogNames}
    \cup {Row(PyStr(<<"A", "b">>), NaN, NaN, NaN, NaN, NaN, NaN),
          Row(PyStr(<<"a", ".">>), PyStr(<<"u">>), PyStr(<<"d">>), Yes,
              PyStr(<<"a">>), Yes, PseudoListCell)}

\* the catalog of the runs that call one method alone
SmallCatalog == <<CompleteRow(PyStr(<<"A", "b">>))>>

\* cells of a single row given to the record construction
UrlCells == {NaN, PyStr(<<"u">>)}
DescriptionCells == {NaN, PyStr(<<"d">>), PyInt(42)}
SupportCells == {NaN, Yes}
DurationCells == {NaN, PyInt(30), PyFloat(125), PyStr(<<"3", "0">>), PyStr(<<"a">>)}
TestTypeCells ==
    {NaN, PseudoListCell, PyStr(<<"a">>), PyStr(<<"1">>),
     PyStr(<<"n", "u", "l", "l">>), PyStr(<<"[", "1", ";", " ", "2", "]">>)}

SingleRows ==
    {Row(name, url, description, adaptive, duration, remote, test_type) :
        name \in CatalogNames, url \in UrlCells, description \in DescriptionCells,
        adaptive \in SupportCells, duration \in DurationCells,
        remote \in SupportCells, test_type \in TestTypeCells}

\* category strings: no quote, bracket or semicolon, no surrounding blanks
CatChars == {"a", ",", " "}
Categories ==
    {c \in SeqsUpTo(CatChars, MaxCatLen) : c # <<>> /\ Strip(c) = c}

\* "[" q c1 q "; " q c2 q ... "]"
RECURSIVE JoinQuoted(_, _)
JoinQuoted(cats, q) ==
    IF cats = <<>> THEN <<>>
    ELSE <<q>> \o Head(cats) \o <<q>>
         \o (IF Len(cats) > 1 THEN <<";", " ">> ELSE <<>>)
         \o JoinQuoted(Tail(cats), q)

Stringify(cats, q) == <<"[">> \o JoinQuoted(cats, q) \o <<"]">>

StrList(cats) == PyList([k \in 1..Len(cats) |-> PyStr(cats[k])])

CellChars == {"[", "]", "'", "\"", ";", ",", "a", " ", "1"}

\* the cell values: missing, a number, a list of strings, any short string,
\* a semicolon pseudo-list with either quote character
IsCellValue(v) ==
    \/ v \in {NaN, PyInt(5)}
    \/ \E n \in 0..MaxListLen : \E cats \in [1..n -> Categories] :
          \/ v = StrList(cats)
          \/ \E q \in {"'", "\""} : v = PyStr(Stringify(cats, q))
    \/ \E n \in 0..MaxCellLen : \E w \in [1..n -> CellChars] : v = PyStr(w)

-----------------------------------------------------------------------------
(* get_recommendations *)

\* a cell of the sheet that holds nothing
EmptyCell == PyNone

\* pd.read_excel(self.csv_path, engine='openpyxl'): a cell that is empty or
\* holds the empty text is read as NaN (the default na_values), any other
\* cell comes as it is
ReadCell(cell) ==
    IF cell.t = "none" \/ (cell.t = "str" /\ cell.s = <<>>) THEN NaN ELSE cell

read_excel(rows) ==
    [i \in 1..Len(rows) |-> [field \in DOMAIN rows[i] |-> ReadCell(rows[i][field])]]

\* keeps every row the sheet holds, named or not
KeepAllRows(rows) == read_excel(rows)

\* df = pd.read_excel(...); df = df[df['name'].notna()].copy()
LoadedRows(rows) ==
    SelectSeq(read_excel(rows), LAMBDA row : ~IsMissing(row.name))

\* a readable workbook whose sheet reads as the frame df
Workbook(df) ==
    [readable |-> TRUE,
     rows |-> [i \in 1..Len(df) |->
                  [field \in DOMAIN df[i] |->
                      IF df[i][field].t = "nan" THEN EmptyCell ELSE df[i][field]]]]

Unreadable == [readable |-> FALSE, rows |-> <<>>]

NoResult == Returned(PyNone)

NoResponse == [status |-> 0, detail |-> <<>>, body |-> <<>>]

\* run_tests.py: no data frame (df = None); a loaded one has its columns and
\* the cells of its one column
NoFrame == [loaded |-> FALSE, columns |-> {}, cells |-> <<>>]

\* run_tests.py: a test file that cannot be read; a readable one has one
\* column: its header and the cells below it
NoTestFile == [readable |-> FALSE, header |-> "", cells |-> <<>>]

\* run_tests.py: OUTPUT_FILE before it is written
NoFile == [written |-> FALSE, rows |-> <<>>]

\* the test runner was not started
RunnerIdle ==
    /\ api_health = "unchecked"
    /\ test_file = NoTestFile
    /\ queries_df = NoFrame
    /\ results_list = <<>>
    /\ exchanges = <<>>
    /\ output_file = NoFile

\* the scraper was not started
ScraperIdle ==
    /\ site = <<>>
    /\ browser_page = 0
    /\ page_number = 0
    /\ all_product_urls = <<>>
    /\ visited = <<>>
    /\ product_urls = <<>>
    /\ fetched = <<>>
    /\ scraped_data = <<>>

\* no other call is under way, nothing was answered
RestIdle ==
    /\ in_flight = <<>>
    /\ response = NoResponse
    /\ pydantic_v1 = FALSE
    /\ steps = <<>>
    /\ RunnerIdle
    /\ ScraperIdle

Init ==
    /\ pc = "idle"
    /\ \E n \in 1..MaxRows : dataframe \in [1..n -> CatalogRows]
    /\ csv_path = Workbook(dataframe)
    /\ numpy_strict \in BOOLEAN
    /\ llm_answer = <<>>
    /\ assessment_names = <<>>
    /\ results = <<>>
    /\ raised = "none"
    /\ test_type_value = NaN
    /\ test_type_result = NoResult
    /\ RestIdle

\* Step A: self.rag_chain.invoke(query) returns the oracle's text
Invoke ==
    /\ pc = "idle"
    /\ \E n \in 0..MaxAnswerLen : llm_answer' \in [1..n -> AnswerChars]
    /\ pc' = "invoked"
    /\ steps' = <<"A">>
    /\ UNCHANGED <<elsewhere, csv_path, dataframe, assessment_names, results, raised,
                   test_type_value, test_type_result, numpy_strict>>

\* calls the chain a second time when the first call raised
InvokeRetries ==
    /\ pc = "idle"
    /\ \E n \in 0..MaxAnswerLen : llm_answer' \in [1..n -> AnswerChars]
    /\ pc' = "invoked"
    /\ steps' = <<"A", "A">>
    /\ UNCHANGED <<elsewhere, csv_path, dataframe, assessment_names, results, raised,
                   test_type_value, test_type_result, numpy_strict>>

\* Step A, when the chain (retrieval or generation) raises
InvokeFails ==
    /\ pc = "idle"
    /\ pc' = "raised"
    /\ raised' = "OracleError"
    /\ steps' = <<"A">>
    /\ UNCHANGED <<elsewhere, csv_path, dataframe, llm_answer, assessment_names, results,
                   test_type_value, test_type_result, numpy_strict>>

\* Step B: self._parse_llm_answer(llm_answer)
Parse ==
    /\ pc = "invoked"
    /\ assessment_names' = _parse_llm_answer(llm_answer)
    /\ pc' = "parsed"
    /\ steps' = Append(steps, "B")
    /\ UNCHANGED <<elsewhere, csv_path, dataframe, llm_answer, results, raised,
                   test_type_value, test_type_result, numpy_strict>>

\* stores the normalized test_type of every row back into the catalog
LookupWritesBack ==
    /\ pc = "parsed"
    /\ LET found == _find_data_by_names(assessment_names, dataframe, numpy_strict)
       IN /\ results' = found.val
          /\ raised' = found.exc
          /\ pc' = IF found.exc = "none" THEN "done" ELSE "raised"
    /\ dataframe' =
           [i \in 1..Len(dataframe) |->
               LET parsed == _parse_test_type(dataframe[i].test_type, numpy_strict)
               IN IF parsed.exc = "none"
                  THEN [dataframe[i] EXCEPT !.test_type = parsed.val]
                  ELSE dataframe[i]]
    /\ steps' = Append(steps, "C")
    /\ UNCHANGED <<elsewhere, csv_path, llm_answer, assessment_names,
                   test_type_value, test_type_result, numpy_strict>>

\* Step C: self._find_data_by_names(assessment_names), then Step D
Lookup ==
    /\ pc = "parsed"
    /\ LET found == _find_data_by_names(assessment_names, dataframe, numpy_strict)
       IN /\ results' = found.val
          /\ raised' = found.exc
          /\ pc' = IF found.exc = "none" THEN "done" ELSE "raised"
    /\ steps' = Append(steps, "C")
    /\ UNCHANGED <<elsewhere, csv_path, dataframe, llm_answer, assessment_names,
                   test_type_value, test_type_result, numpy_strict>>

\* the call is over: its locals are gone and the engine takes the next query
Return ==
    /\ pc \in {"done", "raised"}
    /\ pc' = "idle"
    /\ llm_answer' = <<>>
    /\ assessment_names' = <<>>
    /\ results' = <<>>
    /\ raised' = "none"
    /\ steps' = <<>>
    /\ UNCHANGED <<elsewhere, csv_path, dataframe, test_type_value, test_type_result,
                   numpy_strict>>

Next == Invoke \/ InvokeFails \/ Parse \/ Lookup \/ Return

Spec == Init /\ [][Next]_vars

-----------------------------------------------------------------------------
(* _parse_llm_answer on its own: any text over LineChars *)

InitParser ==
    /\ pc = "invoked"
    /\ \E n \in 0..MaxLineLen : llm_answer \in [1..n -> LineChars]
    /\ dataframe = SmallCatalog
    /\ csv_path = Workbook(dataframe)
    /\ numpy_strict = FALSE
    /\ assessment_names = <<>>
    /\ results = <<>>
    /\ raised = "none"
    /\ test_type_value = NaN
    /\ test_type_result = NoResult
    /\ RestIdle

SpecParser == InitParser /\ [][Parse]_vars

\* _parse_llm_answer on its own, on answers with upper and lower case letters
InitCase ==
    /\ pc = "invoked"
    /\ \E n \in 0..MaxLineLen : llm_answer \in [1..n -> {"a", "A", "1", ")", "-", " ", "\n"}]
    /\ dataframe = SmallCatalog
    /\ csv_path = Workbook(dataframe)
    /\ numpy_strict = FALSE
    /\ assessment_names = <<>>
    /\ results = <<>>
    /\ raised = "none"
    /\ test_type_value = NaN
    /\ test_type_result = NoResult
    /\ RestIdle

SpecCase == InitCase /\ [][Parse]_vars

-----------------------------------------------------------------------------
(* Start-up: engine = RecommendationEngine() at import of main.py, then the
   requests *)

BlankName == PyStr(<<" ">>)
EmptyName == PyStr(<<>>)

\* rows of the sheet: named, with a blank name, with an empty name, without
\* a name, and without any cell
SheetRows ==
    {CompleteRow(name) : name \in {PyStr(<<"A", "b">>), BlankName, EmptyName, EmptyCell}}
    \cup {Row(EmptyCell, EmptyCell, EmptyCell, EmptyCell, EmptyCell, EmptyCell,
              EmptyCell)}

InitStartup ==
    /\ pc = "boot"
    /\ \/ csv_path = Unreadable
       \/ \E n \in 1..MaxRows : \E rows \in [1..n -> SheetRows] :
              csv_path = [readable |-> TRUE, rows |-> rows]
    /\ dataframe = <<>>
    /\ numpy_strict \in BOOLEAN
    /\ llm_answer = <<>>
    /\ assessment_names = <<>>
    /\ results = <<>>
    /\ raised = "none"
    /\ test_type_value = NaN
    /\ test_type_result = NoResult
    /\ RestIdle

\* serves with an empty catalog when the workbook cannot be read
LoadSwallowsFailure ==
    /\ pc = "boot"
    /\ dataframe' = IF csv_path.readable THEN LoadedRows(csv_path.rows) ELSE <<>>
    /\ pc' = "idle"
    /\ UNCHANGED <<outside, csv_path, llm_answer, assessment_names, results, raised,
                   test_type_value, test_type_result, numpy_strict>>

\* the workbook is read and filtered, the index and the chain are built, the
\* engine exists and the server takes requests
Load ==
    /\ pc = "boot"
    /\ csv_path.readable
    /\ dataframe' = LoadedRows(csv_path.rows)
    /\ pc' = "idle"
    /\ UNCHANGED <<outside, csv_path, llm_answer, assessment_names, results, raised,
                   test_type_value, test_type_result, numpy_strict>>

\* read_excel or df['name'] raises: _load_and_index_data re-raises, __init__
\* does not catch, main.py re-raises and the import of the application fails
LoadFails ==
    /\ pc = "boot"
    /\ ~csv_path.readable
    /\ pc' = "failed"
    /\ raised' = "LoadError"
    /\ UNCHANGED <<outside, csv_path, dataframe, llm_answer, assessment_names, results,
                   test_type_value, test_type_result, numpy_strict>>

\* the workbook was read but a later step of the construction raises (the
\* embedding call, the index over the documents, the chat model): the same
\* way out
ConstructFails ==
    /\ pc = "boot"
    /\ csv_path.readable
    /\ pc' = "failed"
    /\ raised' = "ConstructError"
    /\ UNCHANGED <<outside, csv_path, dataframe, llm_answer, assessment_names, results,
                   test_type_value, test_type_result, numpy_strict>>

NextStartup == Load \/ LoadFails \/ ConstructFails \/ Next

SpecStartup == InitStartup /\ [][NextStartup]_vars

-----------------------------------------------------------------------------
(* _parse_llm_answer on one annotated line:
   marker, name, parenthesized annotations, " - ", trailing text *)

Markers == {<<"1", ".">>, <<"1", ")", " ">>, <<"-">>, <<"*", " ">>, <<"BULLET">>}
NameChars == {"a", "A", " ", "1", ".", "*"}
Annotations == {<<"(", "a", ")">>, <<" ", "(", "a", "-", ")">>}
TailChars == {"a", "-", "(", ")"}

RECURSIVE Flatten(_)
Flatten(seqs) == IF seqs = <<>> THEN <<>> ELSE Head(seqs) \o Flatten(Tail(seqs))

InitAnnotated ==
    /\ pc = "invoked"
    /\ \E marker \in Markers, n \in 1..MaxNameLen,
          k \in 0..MaxAnnotations, j \in 0..MaxTailLen :
          \E name \in [1..n -> NameChars], annotations \in [1..k -> Annotations],
             tail \in [1..j -> TailChars] :
              llm_answer = marker \o name \o Flatten(annotations)
                               \o <<" ", "-", " ">> \o tail
    /\ dataframe = SmallCatalog
    /\ csv_path = Workbook(dataframe)
    /\ numpy_strict = FALSE
    /\ assessment_names = <<>>
    /\ results = <<>>
    /\ raised = "none"
    /\ test_type_value = NaN
    /\ test_type_result = NoResult
    /\ RestIdle

SpecAnnotated == InitAnnotated /\ [][Parse]_vars

-----------------------------------------------------------------------------
(* _parse_test_type on its own: any cell value *)

InitNormalizer ==
    /\ pc = "cell"
    /\ IsCellValue(test_type_value)
    /\ numpy_strict \in BOOLEAN
    /\ test_type_result = NoResult
    /\ RestIdle
    /\ dataframe = SmallCatalog
    /\ csv_path = Workbook(dataframe)
    /\ llm_answer = <<>>
    /\ assessment_names = <<>>
    /\ results = <<>>
    /\ raised = "none"

Normalize ==
    /\ pc = "cell"
    /\ test_type_result' = _parse_test_type(test_type_value, numpy_strict)
    /\ pc' = "normalized"
    /\ UNCHANGED <<outside, csv_path, dataframe, llm_answer, assessment_names, results, raised,
                   test_type_value, numpy_strict>>

SpecNormalizer == InitNormalizer /\ [][Normalize]_vars

-----------------------------------------------------------------------------
(* the record construction of _find_data_by_names on one matched row *)

InitRecord ==
    /\ pc = "matched"
    /\ dataframe \in {<<r>> : r \in SingleRows}
    /\ csv_path = Workbook(dataframe)
    /\ numpy_strict \in BOOLEAN
    /\ llm_answer = <<>>
    /\ assessment_names = <<>>
    /\ results = <<>>
    /\ raised = "none"
    /\ test_type_value = NaN
    /\ test_type_result = NoResult
    /\ RestIdle

\* row = matches.iloc[0]; product_dict = {...}; results.append(product_dict)
Convert ==
    /\ pc = "matched"
    /\ LET product == ProductDict(dataframe[1], numpy_strict)
       IN /\ results' = IF product.exc = "none" THEN <<product.val>> ELSE <<>>
          /\ raised' = product.exc
          /\ pc' = IF product.exc = "none" THEN "done" ELSE "raised"
    /\ UNCHANGED <<outside, csv_path, dataframe, llm_answer, assessment_names,
                   test_type_value, test_type_result, numpy_strict>>

SpecRecord == InitRecord /\ [][Convert]_vars

-----------------------------------------------------------------------------
(* Several calls of get_recommendations under way together on one engine:
   each call has its own llm_answer, assessment_names and full_products, the
   engine's dataframe is shared. The steps of different calls interleave at
   every stage boundary. *)

\* rows of the shared catalog: a complete one and one whose lookup raises
ConcurrentRows ==
    {CompleteRow(PyStr(<<"A", "b">>)),
     Row(PyStr(<<"a", ".">>), PyStr(<<"u">>), PyStr(<<"d">>), Yes,
         PyStr(<<"a">>), Yes, PseudoListCell)}

IdleCall ==
    [pc |-> "idle", llm_answer |-> <<>>, assessment_names |-> <<>>,
     results |-> <<>>, raised |-> "none"]

InitConcurrent ==
    /\ in_flight = [r \in 1..MaxRequests |-> IdleCall]
    /\ response = NoResponse
    /\ pydantic_v1 = FALSE
    /\ steps = <<>>
    /\ RunnerIdle
    /\ ScraperIdle
    /\ \E n \in 1..MaxRows : dataframe \in [1..n -> ConcurrentRows]
    /\ csv_path = Workbook(dataframe)
    /\ numpy_strict = FALSE
    /\ pc = "idle"
    /\ llm_answer = <<>>
    /\ assessment_names = <<>>
    /\ results = <<>>
    /\ raised = "none"
    /\ test_type_value = NaN
    /\ test_type_result = NoResult

CallUnchanged ==
    UNCHANGED <<response, pydantic_v1, steps, runner, scraper, pc, csv_path, dataframe,
                llm_answer, assessment_names, results,
                raised, test_type_value, test_type_result, numpy_strict>>

\* Step A of call r
CallInvoke(r) ==
    /\ in_flight[r].pc = "idle"
    /\ \E answer \in {<<"a">>, <<"A", "\n", "a">>, <<"[">>, <<".", ".">>, <<"a", ".">>} :
           in_flight' = [in_flight EXCEPT ![r].llm_answer = answer,
                                          ![r].pc = "invoked"]
    /\ CallUnchanged

\* Step A of call r, when the chain raises
CallInvokeFails(r) ==
    /\ in_flight[r].pc = "idle"
    /\ in_flight' = [in_flight EXCEPT ![r].raised = "OracleError",
                                      ![r].pc = "raised"]
    /\ CallUnchanged

\* keeps the parsed names in one place for all calls, as an attribute of the
\* engine would
CallParseShared(r) ==
    /\ in_flight[r].pc = "invoked"
    /\ in_flight' =
           [q \in 1..MaxRequests |->
               IF q = r
               THEN [in_flight[q] EXCEPT
                        !.assessment_names = _parse_llm_answer(in_flight[r].llm_answer),
                        !.pc = "parsed"]
               ELSE [in_flight[q] EXCEPT
                        !.assessment_names = _parse_llm_answer(in_flight[r].llm_answer)]]
    /\ CallUnchanged

\* Step B of call r
CallParse(r) ==
    /\ in_flight[r].pc = "invoked"
    /\ in_flight' =
           [in_flight EXCEPT
               ![r].assessment_names = _parse_llm_answer(in_flight[r].llm_answer),
               ![r].pc = "parsed"]
    /\ CallUnchanged

\* Steps C and D of call r
CallLookup(r) ==
    /\ in_flight[r].pc = "parsed"
    /\ LET found == _find_data_by_names(in_flight[r].assessment_names, dataframe,
                                        numpy_strict)
       IN in_flight' =
              [in_flight EXCEPT
                  ![r].results = found.val,
                  ![r].raised = found.exc,
                  ![r].pc = IF found.exc = "none" THEN "done" ELSE "raised"]
    /\ CallUnchanged

\* call r is over and its slot takes the next query
CallReturn(r) ==
    /\ in_flight[r].pc \in {"done", "raised"}
    /\ in_flight' = [in_flight EXCEPT ![r] = IdleCall]
    /\ CallUnchanged

NextConcurrent ==
    \E r \in 1..MaxRequests :
        \/ CallInvoke(r)
        \/ CallInvokeFails(r)
        \/ CallParse(r)
        \/ CallLookup(r)
        \/ CallReturn(r)

SpecConcurrent == InitConcurrent /\ [][NextConcurrent]_vars

-----------------------------------------------------------------------------
(* POST /recommend of main.py: the engine call, the validation of its records
   against the Recommendation schema, and the answer *)

\* a str field: pydantic 1.x turns a number into its text, 2.x takes a str only
ValidateStr(v, v1) ==
    IF v.t = "str" THEN Returned(v)
    ELSE IF v1 /\ v.t \in {"int", "float"} THEN Returned(PyStr(str(v)))
    ELSE Raised("ValidationError")

\* test_type: List[str]
ValidateStrList(v, v1) ==
    IF v.t # "list" THEN Raised("ValidationError")
    ELSE IF \E k \in 1..Len(v.l) : ValidateStr(v.l[k], v1).exc # "none"
    THEN Raised("ValidationError")
    ELSE Returned(PyList([k \in 1..Len(v.l) |-> ValidateStr(v.l[k], v1).val]))

StrFields == {"name", "url", "description", "adaptive_support", "remote_support"}

\* Recommendation(**product)
ValidateRecord(product, v1) ==
    IF \/ \E field \in StrFields : ValidateStr(product[field], v1).exc # "none"
       \/ product.duration.t # "int"        \* duration: int
       \/ ValidateStrList(product.test_type, v1).exc # "none"
    THEN Raised("ValidationError")
    ELSE Returned([field \in DOMAIN product |->
             IF field \in StrFields THEN ValidateStr(product[field], v1).val
             ELSE IF field = "duration" THEN product.duration
             ELSE ValidateStrList(product.test_type, v1).val])

\* RecommendationResponse(recommended_assessments=products)
RecommendationResponse(products, v1) ==
    IF \E k \in 1..Len(products) : ValidateRecord(products[k], v1).exc # "none"
    THEN [exc |-> "ValidationError", val |-> <<>>]
    ELSE [exc |-> "none",
          val |-> [k \in 1..Len(products) |-> ValidateRecord(products[k], v1).val]]

\* raise HTTPException(status_code=500,
\*                     detail=f"Error processing recommendation: {str(e)}")
HTTPException500(message) ==
    [status |-> 500,
     detail |-> <<"Error processing recommendation: ", message>>,
     body |-> <<>>]

ApiRows ==
    {CompleteRow(PyStr(<<"A", "b">>)),
     Row(PyStr(<<"a", ".">>), PyStr(<<"u">>), PyStr(<<"d">>), Yes,
         PyFloat(300), Yes, PyStr(<<"[", "1", "]">>)),
     Row(PyStr(<<"A", "b">>), PyStr(<<"u">>), PyStr(<<"d">>), Yes,
         PyFloat(300), Yes, PyStr(<<"1">>))}

InitApi ==
    /\ pc = "idle"
    /\ \E n \in 1..MaxRows : dataframe \in [1..n -> ApiRows]
    /\ csv_path = Workbook(dataframe)
    /\ pydantic_v1 \in BOOLEAN
    /\ steps = <<>>
    /\ RunnerIdle
    /\ ScraperIdle
    /\ numpy_strict = FALSE
    /\ response = NoResponse
    /\ in_flight = <<>>
    /\ llm_answer = <<>>
    /\ assessment_names = <<>>
    /\ results = <<>>
    /\ raised = "none"
    /\ test_type_value = NaN
    /\ test_type_result = NoResult

\* answers 200 with the records as the engine gave them, unvalidated
RespondUnvalidated ==
    /\ pc \in {"done", "raised"}
    /\ response' = IF pc = "raised" THEN HTTPException500(raised)
                   ELSE [status |-> 200, detail |-> <<>>, body |-> results]
    /\ pc' = "responded"
    /\ UNCHANGED <<in_flight, pydantic_v1, steps, runner, scraper, csv_path, dataframe,
                   llm_answer, assessment_names, results, raised, test_type_value,
                   test_type_result, numpy_strict>>

\* the rest of the handler: the engine raised, or its records are validated;
\* every exception of either ends in the except clause
Respond ==
    /\ pc \in {"done", "raised"}
    /\ LET validated == RecommendationResponse(results, pydantic_v1)
       IN response' =
              IF pc = "raised" THEN HTTPException500(raised)
              ELSE IF validated.exc # "none" THEN HTTPException500(validated.exc)
              ELSE [status |-> 200, detail |-> <<>>, body |-> validated.val]
    /\ pc' = "responded"
    /\ UNCHANGED <<in_flight, pydantic_v1, steps, runner, scraper, csv_path, dataframe,
                   llm_answer, assessment_names, results, raised, test_type_value,
                   test_type_result, numpy_strict>>

\* the answer is sent and the endpoint takes the next request
NextRequest ==
    /\ pc = "responded"
    /\ pc' = "idle"
    /\ response' = NoResponse
    /\ llm_answer' = <<>>
    /\ assessment_names' = <<>>
    /\ results' = <<>>
    /\ raised' = "none"
    /\ steps' = <<>>
    /\ UNCHANGED <<in_flight, pydantic_v1, runner, scraper, csv_path, dataframe,
                   test_type_value, test_type_result, numpy_strict>>

NextApi == Invoke \/ InvokeFails \/ Parse \/ Lookup \/ Respond \/ NextRequest

SpecApi == InitApi /\ [][NextApi]_vars

-----------------------------------------------------------------------------
(* Properties *)

SingleLine(answer) == ~Contains(answer, "\n")

\* number of characters of the ordinal marker the line starts with, 0 if none
OrdinalMarkerLen(line) ==
    LET j == SkipDigits(line, 1)
    IN IF j > 1 /\ j <= Len(line) /\ line[j] \in {".", ")"} THEN j ELSE 0

BulletMarkerLen(line) ==
    IF line # <<>> /\ line[1] \in {"-", "*", "BULLET"} THEN 1 ELSE 0

MarkerLen(line) ==
    IF OrdinalMarkerLen(line) > 0 THEN OrdinalMarkerLen(line)
    ELSE BulletMarkerLen(line)

WithoutMarker(line) == From(line, MarkerLen(line) + 1)

BeginsWithOrdinal(text) == OrdinalMarkerLen(From(text, SkipSpaces(text, 1))) > 0
BeginsWithBullet(text) == BulletMarkerLen(From(text, SkipSpaces(text, 1))) > 0

\* the rest of the line does not start with a marker the parser would still
\* strip after the removed one
RestIsClean(line) ==
    /\ ~BeginsWithOrdinal(WithoutMarker(line))
    /\ OrdinalMarkerLen(line) = 0 => ~BeginsWithBullet(WithoutMarker(line))

\* C1: no exception of parse -> lookup -> normalize reaches the caller of
\* get_recommendations, whatever the oracle answered and the catalog holds
C1_NoExceptionReachesCaller ==
    pc = "raised" => raised = "OracleError"

\* case-insensitive literal containment of cand in text
LiteralContains(text, cand) ==
    \E start \in 0..(Len(text) - Len(cand)) :
        \A k \in 1..Len(cand) : Lower(cand[k]) = Lower(text[start + k])

HasLiteralMatch(df, cand) ==
    \E i \in 1..Len(df) : LiteralContains(df[i].name.s, cand)

\* C2: a candidate is resolved iff some catalog name contains it as a literal
\* case-insensitive substring, and each resolved record's name contains the
\* candidate that produced it
C2_LiteralSubstringMatch ==
    pc = "done" =>
        LET resolvable == SelectSeq(assessment_names,
                                    LAMBDA cand : HasLiteralMatch(dataframe, cand))
        IN /\ Len(results) = Len(resolvable)
           /\ \A i \in 1..Len(results) :
                  LiteralContains(results[i].name.s, resolvable[i])

\* C3 as claimed: a line that begins with an ordinal or bullet marker parses
\* to the same output as the line with that marker removed, whatever the rest
\* of the line begins with
C3_MarkerRemovalAnyRest ==
    (pc = "parsed" /\ SingleLine(llm_answer) /\ MarkerLen(llm_answer) > 0)
        => assessment_names = _parse_llm_answer(WithoutMarker(llm_answer))

\* C3 as amended: a line that begins with an ordinal or bullet marker parses
\* to the same output as the line with that marker removed, provided the rest
\* does not begin with an ordinal marker nor, after a bullet, with a bullet
C3_MarkerRemoval ==
    (pc = "parsed" /\ SingleLine(llm_answer) /\ MarkerLen(llm_answer) > 0
       /\ RestIsClean(llm_answer))
        => assessment_names = _parse_llm_answer(WithoutMarker(llm_answer))

\* an ordinal marker followed by a bullet and a name: both are stripped
C3_Witness ==
    /\ pc = "parsed" /\ SingleLine(llm_answer) /\ RestIsClean(llm_answer)
    /\ OrdinalMarkerLen(llm_answer) > 0
    /\ BeginsWithBullet(WithoutMarker(llm_answer))
    /\ assessment_names = <<<<"a">>>>

\* a line with a name and hyphens only: no marker, no parenthesis
PlainNameLine(answer) ==
    /\ SingleLine(answer)
    /\ \A k \in 1..Len(answer) : answer[k] \in {"a", "-", " "}
    /\ MarkerLen(Strip(answer)) = 0

\* index of the first hyphen with whitespace on both sides, 0 if none
RECURSIVE SpacedHyphenFrom(_, _)
SpacedHyphenFrom(line, h) ==
    IF h >= Len(line) THEN 0
    ELSE IF h > 1 /\ line[h] = "-" /\ IsSpace(line[h - 1]) /\ IsSpace(line[h + 1])
    THEN h ELSE SpacedHyphenFrom(line, h + 1)

KeptBeforeSpacedHyphen(answer) ==
    LET line == Strip(answer)
        h == SpacedHyphenFrom(line, 1)
        kept == Strip(IF h = 0 THEN line ELSE SubSeq(line, 1, h - 1))
    IN IF kept = <<>> THEN <<>> ELSE <<kept>>

\* C4: step 4 cuts a line only at the first hyphen that has whitespace on
\* both sides; any other hyphen and the text around it stay in the name
C4_TruncateOnlyAtSpacedHyphen ==
    (pc = "parsed" /\ PlainNameLine(llm_answer))
        => assessment_names = KeptBeforeSpacedHyphen(llm_answer)

\* C5: _parse_test_type returns a value for every cell value, never raises
C5_NormalizerTotal ==
    pc = "normalized" => test_type_result.exc = "none"

IsStrList(v) == v.t = "list" /\ \A k \in 1..Len(v.l) : v.l[k].t = "str"

\* C6: a cell that is already a list of strings, of any length, is returned
\* unchanged
C6_ListPassThrough ==
    (pc = "normalized" /\ IsStrList(test_type_value))
        => test_type_result = Returned(test_type_value)

FullyDefined(record) ==
    /\ \A field \in {"name", "url", "description", "adaptive_support", "remote_support"} :
           record[field].t = "str"
    /\ record.duration.t = "int" /\ record.duration.n >= 0
    /\ IsStrList(record.test_type)

\* C7: every record of a result has seven defined fields, a non-negative
\* integer duration and a test_type that is a sequence of strings
C7_RecordFullyDefined ==
    pc = "done" => \A i \in 1..Len(results) : FullyDefined(results[i])

NonNumeric(cell) ==
    cell.t = "str" /\ \E k \in 1..Len(cell.s) : ~IsDigit(cell.s[k]) /\ ~IsSpace(cell.s[k])

\* C8: a matched row whose duration cell is not a number resolves to a
\* record with duration 0, without an error
C8_UnparseableDurationDefaults ==
    (pc \in {"done", "raised"} /\ NonNumeric(dataframe[1].duration))
        => (pc = "done" /\ results[1].duration = PyInt(0))

TextFields == {"url", "description", "adaptive_support", "remote_support"}
DefaultText(field) == IF field \in {"url", "description"} THEN <<>> ELSE <<"N", "o">>

HasMissingCell(row) ==
    \E field \in TextFields \cup {"duration", "test_type"} : IsMissing(row[field])

CarriedOrDefaulted(row, record) ==
    /\ \A field \in TextFields :
           /\ IsMissing(row[field]) => record[field] = PyStr(DefaultText(field))
           /\ row[field].t = "str" => record[field] = row[field]
    /\ record.name = row.name
    /\ IsMissing(row.duration) => record.duration = PyInt(0)
    /\ row.duration.t = "int" => record.duration = row.duration
    /\ IsMissing(row.test_type) => record.test_type = PyList(<<>>)

\* C9: a matched row with a missing cell resolves to a record holding the
\* documented default of every missing field and the value of every other
\* cell
C9_MissingCellsDefault ==
    (pc \in {"done", "raised"} /\ HasMissingCell(dataframe[1]))
        => (pc = "done" /\ CarriedOrDefaulted(dataframe[1], results[1]))

WellFormedCategory(c) ==
    /\ c # <<>> /\ Strip(c) = c
    /\ \A k \in 1..Len(c) : c[k] \notin {"'", "\"", "[", "]", ";"}

\* the items of a cell "[" item "; " item ... "]"
PseudoListItems(cell) ==
    LET inner == SubSeq(cell, 2, Len(cell) - 1)
        parts == Split(inner, ";")
    IN IF inner = <<>> THEN <<>>
       ELSE [k \in 1..Len(parts) |-> IF k = 1 THEN parts[k] ELSE Tail(parts[k])]

\* the cell is the semicolon pseudo-list of well-formed categories quoted by q
IsPseudoList(cell, q) ==
    /\ Len(cell) >= 2 /\ cell[1] = "[" /\ cell[Len(cell)] = "]"
    /\ LET parts == Split(SubSeq(cell, 2, Len(cell) - 1), ";")
           items == PseudoListItems(cell)
       IN /\ \A k \in 2..Len(parts) : parts[k] # <<>> /\ parts[k][1] = " "
          /\ \A k \in 1..Len(items) :
                 /\ Len(items[k]) >= 3
                 /\ items[k][1] = q /\ items[k][Len(items[k])] = q
                 /\ WellFormedCategory(SubSeq(items[k], 2, Len(items[k]) - 1))

\* the list the cell was written from
PseudoListOf(cell) ==
    LET items == PseudoListItems(cell)
    IN [k \in 1..Len(items) |-> SubSeq(items[k], 2, Len(items[k]) - 1)]

\* C10 as claimed: the normalizer returns the list a semicolon pseudo-list
\* cell was written from, with either quote character and also when a
\* category contains a comma
C10_RoundTripAnyList ==
    (pc = "normalized" /\ test_type_value.t = "str"
       /\ \E q \in {"'", "\""} : IsPseudoList(test_type_value.s, q))
        => test_type_result = Returned(StrList(PseudoListOf(test_type_value.s)))

\* a single-quoted cell of one category that contains a comma
LoneCommaCategory(cell) ==
    /\ IsPseudoList(cell, "'")
    /\ Len(PseudoListOf(cell)) = 1
    /\ Contains(PseudoListOf(cell)[1], ",")

\* C10 as amended: the normalizer returns the list a semicolon pseudo-list
\* cell was written from, with either quote character and also when a
\* category contains a comma, unless the cell is single-quoted and holds one
\* category that contains a comma
C10_RoundTrip ==
    (pc = "normalized" /\ test_type_value.t = "str"
       /\ (\E q \in {"'", "\""} : IsPseudoList(test_type_value.s, q))
       /\ ~LoneCommaCategory(test_type_value.s))
        => test_type_result = Returned(StrList(PseudoListOf(test_type_value.s)))

\* a single-quoted cell of two categories, the first with a comma, comes back
\* as the list it was written from
C10_Witness ==
    /\ pc = "normalized" /\ test_type_value.t = "str"
    /\ IsPseudoList(test_type_value.s, "'")
    /\ Len(PseudoListOf(test_type_value.s)) = 2
    /\ Contains(PseudoListOf(test_type_value.s)[1], ",")
    /\ test_type_result = Returned(StrList(PseudoListOf(test_type_value.s)))

-----------------------------------------------------------------------------
(* Resolution policy: skipping, first match, order, length *)

\* the candidates some catalog name contains literally, in candidate order
LiterallyResolvable(df, names) ==
    SelectSeq(names, LAMBDA cand : HasLiteralMatch(df, cand))

\* the first row in load order whose name contains cand literally
FirstLiteralMatch(df, cand) ==
    CHOOSE i \in 1..Len(df) :
        /\ LiteralContains(df[i].name.s, cand)
        /\ \A j \in 1..(i - 1) : ~LiteralContains(df[j].name.s, cand)

\* C11: a candidate no catalog name contains is excluded without raising and
\* without affecting the others: the lookup of a candidate list ends as the
\* lookup of the list with every such candidate deleted ends
C11_ZeroMatchSkipped ==
    (pc \in {"done", "raised"} /\ raised # "OracleError") =>
        LET kept == _find_data_by_names(
                        LiterallyResolvable(dataframe, assessment_names),
                        dataframe, numpy_strict)
        IN /\ raised = kept.exc
           /\ pc = "done" => results = kept.val

\* C12: every candidate some catalog name contains resolves to the record of
\* the first such row in load order, however many rows contain it
C12_FirstMatchInLoadOrder ==
    (/\ pc \in {"done", "raised"} /\ raised # "OracleError"
     /\ \A k \in 1..Len(assessment_names) :
            HasLiteralMatch(dataframe, assessment_names[k]))
        => /\ pc = "done"
           /\ Len(results) = Len(assessment_names)
           /\ \A k \in 1..Len(assessment_names) :
                  CarriedOrDefaulted(
                      dataframe[FirstLiteralMatch(dataframe, assessment_names[k])],
                      results[k])

\* C13: the result keeps candidate order and is not deduplicated: its i-th
\* record is the record of a row containing the i-th resolvable candidate, one
\* record per resolvable candidate even when two of them resolve to one row
C13_CandidateOrderKept ==
    pc = "done" =>
        LET resolvable == LiterallyResolvable(dataframe, assessment_names)
        IN /\ Len(results) = Len(resolvable)
           /\ \A i \in 1..Len(resolvable) :
                  \E r \in 1..Len(dataframe) :
                      /\ LiteralContains(dataframe[r].name.s, resolvable[i])
                      /\ CarriedOrDefaulted(dataframe[r], results[i])

\* C14: the length of a lookup result is the number of parsed candidates that
\* some catalog name contains
C14_ResultLength ==
    pc = "done" =>
        Len(results) = Cardinality({k \in 1..Len(assessment_names) :
                            HasLiteralMatch(dataframe, assessment_names[k])})

-----------------------------------------------------------------------------
(* Parser: blank lines, order, duplicates, case *)

IsBlankLine(line) == \A i \in 1..Len(line) : IsSpace(line[i])

RECURSIVE JoinLines(_)
JoinLines(lines) ==
    IF lines = <<>> THEN <<>>
    ELSE IF Len(lines) = 1 THEN lines[1]
    ELSE lines[1] \o <<"\n">> \o JoinLines(Tail(lines))

\* the answer with every empty or whitespace-only line deleted
WithoutBlankLines(answer) ==
    JoinLines(SelectSeq(Split(answer, "\n"), LAMBDA line : ~IsBlankLine(line)))

HasBlankLine(answer) ==
    \E i \in 1..Len(Split(answer, "\n")) : IsBlankLine(Split(answer, "\n")[i])

\* C15: blank and whitespace-only lines contribute nothing: an answer parses
\* to what the answer without those lines parses to, and an empty or blank
\* answer parses to the empty sequence
C15_BlankLinesIgnored ==
    pc = "parsed" =>
        /\ assessment_names = _parse_llm_answer(WithoutBlankLines(llm_answer))
        /\ IsBlankLine(llm_answer) => assessment_names = <<>>

\* a blank line between two named lines leaves the two names
C15_Witness ==
    /\ pc = "parsed"
    /\ Len(Split(llm_answer, "\n")) = 3
    /\ Split(llm_answer, "\n")[2] = <<>>
    /\ Len(assessment_names) = 2

\* t is s with some characters left out, the others in order and unchanged
RECURSIVE IsSubsequence(_, _)
IsSubsequence(t, s) ==
    IF t = <<>> THEN TRUE
    ELSE IF s = <<>> THEN FALSE
    ELSE IF Head(t) = Head(s) THEN IsSubsequence(Tail(t), Tail(s))
    ELSE IsSubsequence(t, Tail(s))

\* C16: the output is the sequence of the non-empty cleaned names of the
\* lines in line order, a name repeated on two lines appears twice, and every
\* name is made of characters of its line exactly as written there
C16_OrderDuplicatesCaseKept ==
    pc = "parsed" =>
        LET lines == Split(Strip(llm_answer), "\n")
            named == SelectSeq(lines, LAMBDA line : CleanLine(line) # <<>>)
        IN /\ Len(assessment_names) = Len(named)
           /\ \A i \in 1..Len(named) :
                  /\ assessment_names[i] = CleanLine(named[i])
                  /\ IsSubsequence(assessment_names[i], named[i])

\* three lines naming "A", "A" and "a" come back as those three names
C16_Witness ==
    /\ pc = "parsed"
    /\ llm_answer = <<"A", "\n", "A", "\n", "a">>
    /\ assessment_names = << <<"A">>, <<"A">>, <<"a">> >>

-----------------------------------------------------------------------------
(* Parser: marker, name, annotations, " - ", trailing text *)

\* index of the first parenthesis or hyphen of text, 0 if it has none
RECURSIVE FirstParenOrHyphen(_, _)
FirstParenOrHyphen(text, i) ==
    IF i > Len(text) THEN 0
    ELSE IF text[i] \in {"(", ")", "-"} THEN i
    ELSE FirstParenOrHyphen(text, i + 1)

\* the name part of a line: what stands between the marker and the first
\* parenthesis or hyphen
NamePart(line) ==
    LET rest == WithoutMarker(line)
        p == FirstParenOrHyphen(rest, 1)
    IN IF p = 0 THEN rest ELSE SubSeq(rest, 1, p - 1)

\* from index i on, text is a run of annotations "(...)" without inner
\* parentheses, each after optional spaces, followed by " - " and anything
RECURSIVE AnnotationsThenHyphen(_, _)
AnnotationsThenHyphen(text, i) ==
    LET j == SkipSpaces(text, i)
    IN IF j > Len(text) THEN FALSE
       ELSE IF text[j] = "-"
       THEN /\ j > 1 /\ text[j - 1] = " "
            /\ j < Len(text) /\ text[j + 1] = " "
       ELSE IF text[j] = "("
       THEN LET close == IndexFrom(text, ")", j + 1)
            IN /\ close # 0
               /\ ~Contains(SubSeq(text, j + 1, close - 1), "(")
               /\ AnnotationsThenHyphen(text, close + 1)
       ELSE FALSE

\* marker, name without parentheses or hyphen that does not begin (after
\* optional spaces) with a marker, annotations, " - ", trailing text
IsAnnotatedLine(line) ==
    /\ SingleLine(line)
    /\ MarkerLen(line) > 0
    /\ Strip(NamePart(line)) # <<>>
    /\ ~BeginsWithOrdinal(NamePart(line))
    /\ ~BeginsWithBullet(NamePart(line))
    /\ AnnotationsThenHyphen(WithoutMarker(line), Len(NamePart(line)) + 1)

\* C17: a line made of a marker, a name N without parentheses or hyphen that
\* does not begin with a marker, any number of parenthesized annotations,
\* " - " and arbitrary trailing text parses to exactly N, trimmed
C17_AnnotatedLineYieldsName ==
    (pc = "parsed" /\ IsAnnotatedLine(llm_answer))
        => assessment_names = <<Strip(NamePart(llm_answer))>>

\* a line such as "1.Aa(a)(a) - -": ordinal, a name of two characters, two
\* annotations and a trailing text that is a hyphen, parsed to the name alone
C17_Witness ==
    /\ pc = "parsed"
    /\ IsAnnotatedLine(llm_answer)
    /\ OrdinalMarkerLen(llm_answer) > 0
    /\ Len(Strip(NamePart(llm_answer))) >= 2
    /\ Len(llm_answer) - Len(RemoveParens(llm_answer)) >= 6
    /\ llm_answer[Len(llm_answer)] = "-"
    /\ assessment_names = <<Strip(NamePart(llm_answer))>>

-----------------------------------------------------------------------------
(* Catalog load and start-up *)

Started == pc \notin {"boot", "failed"}

\* the name the row has: a text with at least one character
HasName(row) == row.name.t = "str" /\ row.name.s # <<>>

\* the name is neither missing nor empty nor blank
HasVisibleName(row) == HasName(row) /\ Strip(row.name.s) # <<>>

\* C18 as claimed: after load no row of the catalog has a missing, empty or
\* blank name, and no record of a result has one
C18_NoBlankNameIndexed ==
    Started =>
        /\ \A i \in 1..Len(dataframe) : HasVisibleName(dataframe[i])
        /\ \A k \in 1..Len(results) : HasVisibleName(results[k])

\* the rows of the sheet whose name cell holds a text of at least one
\* character, in sheet order
NamedSheetRows == SelectSeq(csv_path.rows, HasName)

\* C18, amended: after load the catalog holds exactly the rows of the sheet
\* whose name is neither missing nor empty, in sheet order, so no row and no
\* record of a result lacks a non-empty name; a blank name counts as a name
C18_NoMissingNameIndexed ==
    Started =>
        /\ Len(dataframe) = Len(NamedSheetRows)
        /\ \A i \in 1..Len(dataframe) :
               /\ HasName(dataframe[i])
               /\ dataframe[i].name = NamedSheetRows[i].name
        /\ \A k \in 1..Len(results) : HasName(results[k])

\* a sheet of a row without a name and a named row was loaded, and a request
\* resolved a candidate to the one row kept
C18_Witness ==
    /\ pc = "done"
    /\ Len(csv_path.rows) = 2 /\ csv_path.rows[1].name = EmptyCell
    /\ Len(dataframe) = 1
    /\ Len(results) = 1 /\ results[1].name = dataframe[1].name

\* nothing is served on an unreadable workbook, and what is served is served
\* on the catalog as it was fully loaded
ServedOnLoadedCatalog ==
    /\ ~csv_path.readable => (pc \in {"boot", "failed"} /\ dataframe = <<>>)
    /\ Started => (/\ csv_path.readable
                   /\ Len(dataframe) = Len(NamedSheetRows)
                   /\ \A i \in 1..Len(dataframe) :
                          dataframe[i] = read_excel(NamedSheetRows)[i])

\* C19: a failed load is fatal and comes before all serving: start-up ends
\* in failure with no catalog, no step leaves the failed start-up (the load
\* is not tried again, nothing is served), and every request that is handled
\* sees the catalog as it was fully loaded
C19_LoadFailureIsFatal ==
    /\ []ServedOnLoadedCatalog
    /\ [][pc = "failed" => pc' = "failed"]_vars

\* start-up failed on an unreadable workbook
C19_Witness ==
    /\ pc = "failed" /\ ~csv_path.readable /\ raised = "LoadError"
    /\ dataframe = <<>>

\* C20: the catalog is read-only after load: no step of a request, ended by
\* a result or by an exception, changes its rows, their order or their cells
C20_CatalogReadOnly == [][pc # "boot" => dataframe' = dataframe]_vars

\* a request resolved one candidate on a catalog of two rows: its record
\* holds the normalized list, the rows are still the rows the load produced
\* and their test_type cells still hold the raw text
C20_Witness ==
    /\ pc = "done" /\ Len(results) = 1
    /\ results[1].test_type.t = "list"
    /\ Len(dataframe) = 2
    /\ \A i \in 1..Len(dataframe) : dataframe[i].test_type = PseudoListCell
    /\ \A i \in 1..Len(dataframe) : dataframe[i] = read_excel(NamedSheetRows)[i]

-----------------------------------------------------------------------------
(* Concurrency *)

\* what the call would end with if it ran alone on its answer
AloneOutcome(answer) ==
    _find_data_by_names(_parse_llm_answer(answer), dataframe, numpy_strict)

\* C21: whatever the interleaving of the calls under way, a call that ended
\* ended as it would have ended alone on the same answer: same records in the
\* same order, or the same exception
C21_RequestsIndependent ==
    \A r \in DOMAIN in_flight :
        LET call == in_flight[r]
        IN (call.pc \in {"done", "raised"} /\ call.raised # "OracleError")
               => /\ call.raised = AloneOutcome(call.llm_answer).exc
                  /\ call.pc = "done" =>
                         call.results = AloneOutcome(call.llm_answer).val

\* two calls ended together with different answers and different results
C21_Witness ==
    /\ Len(in_flight) >= 2
    /\ in_flight[1].pc = "done" /\ in_flight[2].pc = "done"
    /\ in_flight[1].llm_answer # in_flight[2].llm_answer
    /\ Len(in_flight[1].results) = 1 /\ Len(in_flight[2].results) = 2

-----------------------------------------------------------------------------
(* POST /recommend *)

\* the message of the exception is part of the detail
DetailHolds(message) == \E i \in 1..Len(response.detail) : response.detail[i] = message

Rendered(product) ==
    [product EXCEPT !.test_type =
        PyList([k \in 1..Len(product.test_type.l) |->
                   IF product.test_type.l[k].t \in {"int", "float"}
                   THEN PyStr(str(product.test_type.l[k]))
                   ELSE product.test_type.l[k]])]

-----------------------------------------------------------------------------
(* Normalizer: the fallback path *)

\* the cell is a string that is not valid JSON once ';' is replaced by ','
TakesFallback(v) ==
    v.t = "str" /\ json_loads(Replace(v.s, ";", ",")).exc # "none"

\* the cell without its outer bracket and quote characters
ShellStripped(s) == StripChars(s, {"[", "]", "'", "\""})

\* the parts between the separators, each without its surrounding
\* whitespace and then without its surrounding quotes
PartsOf(content, sep) ==
    LET pieces == Split(content, sep)
    IN [k \in 1..Len(pieces) |->
           PyStr(StripChars(Strip(pieces[k]), {"'", "\""}))]

\* C23: in the fallback path the stripped content is split on semicolons if
\* it has one (commas stay inside the parts), else on commas if it has one,
\* else it is the one element of the list, or the list is empty when the
\* content is blank; each split part loses its surrounding whitespace and
\* quotes
C23_FallbackSplit ==
    (pc = "normalized" /\ TakesFallback(test_type_value)) =>
        LET content == ShellStripped(test_type_value.s)
        IN test_type_result = Returned(PyList(
               IF Contains(content, ";") THEN PartsOf(content, ";")
               ELSE IF Contains(content, ",") THEN PartsOf(content, ",")
               ELSE IF IsBlankLine(content) THEN <<>>
               ELSE <<PyStr(content)>>))

-----------------------------------------------------------------------------
(* Parser: what every emitted name looks like *)

\* some '(' of the name has a ')' after it
HasClosedParenthesis(name) ==
    \E i \in 1..Len(name) : \E j \in (i + 1)..Len(name) :
        name[i] = "(" /\ name[j] = ")"

NonBlankLines(answer) ==
    SelectSeq(Split(answer, "\n"), LAMBDA line : ~IsBlankLine(line))

-----------------------------------------------------------------------------
(* C25: the stages of one request *)

Stages == <<"A", "B", "C">>

\* the oracle call of the current request raised
OracleRaised == raised = "OracleError"

\* the steps run so far are a beginning of oracle call, parsing, lookup, and
\* the position of the request tells how far they went
StagesInOrder ==
    /\ Len(steps) <= Len(Stages)
    /\ steps = SubSeq(Stages, 1, Len(steps))
    /\ pc = "idle" => steps = <<>>
    /\ pc = "invoked" => steps = <<"A">>
    /\ pc = "parsed" => steps = <<"A", "B">>
    /\ pc = "done" => steps = Stages
    /\ OracleRaised =>
           /\ pc \in {"raised", "responded"}
           /\ steps = <<"A">>
           /\ assessment_names = <<>>
           /\ results = <<>>

\* a request runs one stage at a time, and after a failed oracle call
\* nothing runs until the request is over
StageByStage ==
    /\ steps' # steps => steps' = <<>> \/ steps' = Append(steps, Stages[Len(steps) + 1])
    /\ OracleRaised => steps' = steps \/ (steps' = <<>> /\ pc' = "idle")
    /\ (pc = "idle" /\ pc' # "idle") =>
           \/ pc' = "invoked" /\ raised' = "none"
           \/ pc' = "raised" /\ raised' = "OracleError"

\* C25: every request runs its stages in the order oracle call, parsing,
\* lookup, with exactly one oracle call and no retry; when the oracle call
\* raises, neither parsing nor lookup runs for that request and the
\* exception leaves get_recommendations.
C25_StagesInOrder == []StagesInOrder /\ [][StageByStage]_vars

\* the oracle call raised and the endpoint answered, with one step run
C25_Witness ==
    /\ pc = "responded"
    /\ OracleRaised
    /\ steps = <<"A">>
    /\ response.status = 500

-----------------------------------------------------------------------------
(* The test runner, src/scripts/run_tests.py *)

\* everything of the service, which the runner reaches only over HTTP
service == <<csv_path, dataframe, llm_answer, assessment_names, results, raised,
             test_type_value, test_type_result, numpy_strict, in_flight, response,
             pydantic_v1, steps>>

\* the service as the scripts see it: loaded, no request under way
ServiceIdle ==
    /\ dataframe = SmallCatalog
    /\ csv_path = Workbook(dataframe)
    /\ numpy_strict = FALSE
    /\ llm_answer = <<>>
    /\ assessment_names = <<>>
    /\ results = <<>>
    /\ raised = "none"
    /\ test_type_value = NaN
    /\ test_type_result = NoResult
    /\ in_flight = <<>>
    /\ response = NoResponse
    /\ pydantic_v1 = FALSE
    /\ steps = <<>>

\* the outcome of one HTTP request: the exception requests raised, or the
\* status and the JSON body; present says the body has the key
\* "recommended_assessments"
Reply(exc, status, present, recs) ==
    [exc |-> exc, status |-> status, present |-> present, recs |-> recs]

\* what POST /recommend can come to: 200 with records, 200 without the key,
\* 500, no connection, no answer in 60 s, a body that is not JSON
ApiReplies ==
    {Reply("none", 200, TRUE, recs) :
         recs \in UNION {[1..n -> {[url |-> PyStr(<<"u">>)], [url |-> PyStr(<<"v">>)]}] :
                              n \in 0..MaxRecs}}
    \cup {Reply("none", 200, FALSE, <<>>), Reply("none", 500, FALSE, <<>>)}
    \cup {Reply(e, 0, FALSE, <<>>) : e \in {"ConnectionError", "Timeout", "ValueError"}}

\* test_api_health(): True on status 200, False on any other status or exception
test_api_health(reply) == reply.exc = "none" /\ reply.status = 200

\* process_query(query): the records of a 200 answer, [] in every other case
process_query(reply) ==
    IF reply.exc # "none" THEN <<>>
    ELSE IF reply.status = 200
         THEN IF reply.present THEN reply.recs ELSE <<>>
         ELSE <<>>

\* the rows main() appends for one query
OutputRows(query, recommendations) ==
    IF recommendations = <<>>
    THEN <<[Query |-> query, Assessment_url |-> PyNone]>>
    ELSE [k \in 1..Len(recommendations) |->
              [Query |-> query, Assessment_url |-> recommendations[k].url]]

InitRunner ==
    /\ pc = "run_start"
    /\ \/ test_file = NoTestFile
       \/ \E header \in {"Query", "query"}, n \in 0..MaxQueries :
              \E cells \in [1..n -> {PyStr(<<"q">>), PyStr(<<"r">>), NaN}] :
                  test_file = [readable |-> TRUE, header |-> header, cells |-> cells]
    /\ api_health = "unchecked"
    /\ queries_df = NoFrame
    /\ results_list = <<>>
    /\ exchanges = <<>>
    /\ output_file = NoFile
    /\ ServiceIdle
    /\ ScraperIdle

\* goes on to load the test file whatever the health check said
HealthCheckIgnored ==
    /\ pc = "run_start"
    /\ \E reply \in {Reply("none", 200, FALSE, <<>>), Reply("none", 503, FALSE, <<>>),
                      Reply("ConnectionError", 0, FALSE, <<>>)} :
           api_health' = IF test_api_health(reply) THEN "healthy" ELSE "unhealthy"
    /\ pc' = "run_load"
    /\ UNCHANGED <<service, scraper, test_file, queries_df, results_list, exchanges, output_file>>

\* Step 1: if not test_api_health(): return
HealthCheck ==
    /\ pc = "run_start"
    /\ \E reply \in {Reply("none", 200, FALSE, <<>>), Reply("none", 503, FALSE, <<>>),
                      Reply("ConnectionError", 0, FALSE, <<>>)} :
           /\ api_health' = IF test_api_health(reply) THEN "healthy" ELSE "unhealthy"
           /\ pc' = IF test_api_health(reply) THEN "run_load" ELSE "run_ended"
    /\ UNCHANGED <<service, scraper, test_file, queries_df, results_list, exchanges, output_file>>

\* Step 2, no encoding and no parsing mode reads the file: df is None, return
LoadTestFileFails ==
    /\ pc = "run_load"
    /\ ~test_file.readable
    /\ pc' = "run_ended"
    /\ UNCHANGED <<service, scraper, runner>>

\* Step 2, the file is read but has no 'Query' column: return
LoadWithoutQueryColumn ==
    /\ pc = "run_load"
    /\ test_file.readable
    /\ test_file.header # "Query"
    /\ queries_df' =
           [loaded |-> TRUE, columns |-> {test_file.header}, cells |-> test_file.cells]
    /\ pc' = "run_ended"
    /\ UNCHANGED <<service, scraper, api_health, test_file, results_list, exchanges, output_file>>

\* Step 2, the file is read and has the 'Query' column
LoadTestFile ==
    /\ pc = "run_load"
    /\ test_file.readable
    /\ test_file.header = "Query"
    /\ queries_df' =
           [loaded |-> TRUE, columns |-> {test_file.header}, cells |-> test_file.cells]
    /\ pc' = "run_loop"
    /\ UNCHANGED <<service, scraper, api_health, test_file, results_list, exchanges, output_file>>

\* Step 3, one iteration on a text query: post it, append its rows
ProcessQuery ==
    /\ pc = "run_loop"
    /\ Len(exchanges) + 1 <= Len(queries_df.cells)
    /\ LET query == queries_df.cells[Len(exchanges) + 1]
       IN /\ query.t = "str"
          /\ \E reply \in ApiReplies :
                 /\ exchanges' = Append(exchanges, [query |-> query, reply |-> reply])
                 /\ results_list' = results_list \o OutputRows(query, process_query(reply))
    /\ UNCHANGED <<service, scraper, pc, api_health, test_file, queries_df, output_file>>

\* Step 3, one iteration on a cell that is not text: len(query) raises
\* TypeError, which leaves main() before anything is posted or saved
ProcessQueryRaises ==
    /\ pc = "run_loop"
    /\ Len(exchanges) + 1 <= Len(queries_df.cells)
    /\ queries_df.cells[Len(exchanges) + 1].t # "str"
    /\ pc' = "run_crashed"
    /\ UNCHANGED <<service, scraper, runner>>

\* Steps 4 and 5: the rows are saved; the statistics then raise KeyError on
\* a file of no rows, whose data frame has no 'Assessment_url' column
Save ==
    /\ pc = "run_loop"
    /\ Len(exchanges) + 1 > Len(queries_df.cells)
    /\ output_file' = [written |-> TRUE, rows |-> results_list]
    /\ pc' = IF results_list = <<>> THEN "run_crashed" ELSE "run_ended"
    /\ UNCHANGED <<service, scraper, api_health, test_file, queries_df, results_list, exchanges>>

NextRunner ==
    \/ HealthCheck
    \/ LoadTestFileFails
    \/ LoadWithoutQueryColumn
    \/ LoadTestFile
    \/ ProcessQuery
    \/ ProcessQueryRaises
    \/ Save

SpecRunner == InitRunner /\ [][NextRunner]_vars

-----------------------------------------------------------------------------
(* C26, C27: the test runner *)

RunOver == pc \in {"run_ended", "run_crashed"}

\* the three steps before the loop succeeded
ReadyToProcess ==
    /\ api_health = "healthy"
    /\ queries_df.loaded
    /\ "Query" \in queries_df.columns

\* the recommendations the API gave: those of a 200 answer, none on failure
Recommended(reply) ==
    IF reply.exc = "none" /\ reply.status = 200 /\ reply.present THEN reply.recs ELSE <<>>

\* the rows query number i is to contribute
RowsOfQuery(i) ==
    LET query == test_file.cells[i]
        recs == Recommended(exchanges[i].reply)
    IN IF recs = <<>>
       THEN <<[Query |-> query, Assessment_url |-> PyNone]>>
       ELSE [k \in 1..Len(recs) |-> [Query |-> query, Assessment_url |-> recs[k].url]]

\* C26: when a run that got to the queries is over, the output file holds,
\* query after query in the order of the test file, one row per
\* recommendation in the order of the API, each with the query and the url,
\* and one row with a null url for a query without recommendations or whose
\* request failed; so it has at least as many rows as there are queries.
C26_RowsPerRecommendation ==
    (RunOver /\ ReadyToProcess) =>
        /\ output_file.written
        /\ Len(exchanges) = Len(test_file.cells)
        /\ output_file.rows =
               Flatten([i \in 1..Len(exchanges) |-> RowsOfQuery(i)])
        /\ Len(output_file.rows) >= Len(test_file.cells)

\* C27: no query is posted and no output file is written unless the health
\* check succeeded and the test file was loaded with a 'Query' column; a run
\* in which one of these failed is over with no query processed.
C27_NothingBeforeChecks ==
    /\ (exchanges # <<>> \/ results_list # <<>> \/ output_file.written) => ReadyToProcess
    /\ queries_df.loaded => api_health = "healthy"
    /\ ~ReadyToProcess => pc \in {"run_start", "run_load", "run_ended"}
    /\ (pc = "run_ended" /\ ~ReadyToProcess) =>
           /\ exchanges = <<>>
           /\ results_list = <<>>
           /\ ~output_file.written

\* the API was healthy, the file was read, it had no 'Query' column, and the
\* run ended with nothing posted
C27_Witness ==
    /\ pc = "run_ended"
    /\ api_health = "healthy"
    /\ queries_df.loaded
    /\ "Query" \notin queries_df.columns
    /\ Len(queries_df.cells) = MaxQueries
    /\ exchanges = <<>>
    /\ ~output_file.written

-----------------------------------------------------------------------------
(* The scraper, src/scripts/scraper.py: collecting the product URLs *)

\* one catalog page: whether its container shows up within the wait, the
\* href of every link in the container, and its Next button

\* hrefs, as sequences of path pieces; get_attribute gives None for a link
\* without href
ViewA == PyStr(<<"/view/", "a">>)
ViewB == PyStr(<<"/view/", "b">>)

\* href and '/view/' in href
IsProductLink(href) == href.t = "str" /\ href.s # <<>> /\ Contains(href.s, "/view/")

\* appends every product link, repeated ones too
RECURSIVE CollectLinksKeepRepeated(_, _)
CollectLinksKeepRepeated(links, urls) ==
    IF links = <<>> THEN urls
    ELSE LET href == Head(links)
         IN IF IsProductLink(href)
            THEN CollectLinksKeepRepeated(Tail(links), Append(urls, href))
            ELSE CollectLinksKeepRepeated(Tail(links), urls)

\* the for loop over the links: appends the product links not yet collected
RECURSIVE CollectLinks(_, _)
CollectLinks(links, urls) ==
    IF links = <<>> THEN urls
    ELSE LET href == Head(links)
         IN IF IsProductLink(href) /\ \A k \in 1..Len(urls) : urls[k] # href
            THEN CollectLinks(Tail(links), Append(urls, href))
            ELSE CollectLinks(Tail(links), urls)

\* stops only where there is no Next button at all
NoNextButton(page) == page.next = "absent"

\* the loop ends here: no Next button, or one with aria-disabled="true"
NoNextPage(page) == page.next \in {"disabled", "absent"}

InitPagination ==
    /\ pc = "paging"
    /\ \E n \in 1..MaxPages :
           site \in [1..n ->
                        {[loads |-> TRUE, links |-> links, next |-> next] :
                             links \in {<<>>, <<ViewA>>, <<ViewB, ViewA>>,
                                        <<ViewA, PyStr(<<"/products/", "a">>), ViewA>>,
                                        <<PyNone, ViewB>>},
                             next \in {"enabled", "disabled", "absent"}}
                        \cup {[loads |-> FALSE, links |-> <<>>, next |-> next] :
                                  next \in {"enabled", "disabled", "absent"}}]
    /\ site[Len(site)].next # "enabled"
    /\ browser_page = 1
    /\ page_number = 1
    /\ all_product_urls = <<>>
    /\ visited = <<>>
    /\ product_urls = <<>>
    /\ fetched = <<>>
    /\ scraped_data = <<>>
    /\ ServiceIdle
    /\ RunnerIdle

\* one iteration: the container does not show up, TimeoutException, break
ScrapePageTimesOut ==
    /\ pc = "paging"
    /\ ~site[browser_page].loads
    /\ visited' = Append(visited, page_number)
    /\ pc' = "urls_returned"
    /\ UNCHANGED <<service, runner, site, browser_page, page_number, all_product_urls,
                   product_urls, fetched, scraped_data>>

\* one iteration: the links are collected, there is no further page, break
ScrapeLastPage ==
    /\ pc = "paging"
    /\ site[browser_page].loads
    /\ NoNextPage(site[browser_page])
    /\ visited' = Append(visited, page_number)
    /\ all_product_urls' = CollectLinks(site[browser_page].links, all_product_urls)
    /\ pc' = "urls_returned"
    /\ UNCHANGED <<service, runner, site, browser_page, page_number, product_urls,
                   fetched, scraped_data>>

\* one iteration: the links are collected, Next is clicked; the click on a
\* disabled button, or on the last page, leaves the page shown as it is
ScrapePage ==
    /\ pc = "paging"
    /\ page_number <= MaxPages
    /\ site[browser_page].loads
    /\ ~NoNextPage(site[browser_page])
    /\ visited' = Append(visited, page_number)
    /\ all_product_urls' = CollectLinks(site[browser_page].links, all_product_urls)
    /\ browser_page' =
           IF site[browser_page].next = "enabled" /\ browser_page < Len(site)
           THEN browser_page + 1
           ELSE browser_page
    /\ page_number' = page_number + 1
    /\ UNCHANGED <<service, runner, pc, site, product_urls, fetched, scraped_data>>

NextPagination == ScrapePageTimesOut \/ ScrapeLastPage \/ ScrapePage

\* the script runs on its own: an iteration that can run does run
SpecPagination == InitPagination /\ [][NextPagination]_vars /\ WF_vars(NextPagination)

-----------------------------------------------------------------------------
(* C28: the product URLs collected *)

\* the hrefs of the pages whose links were read so far, in page order
RECURSIVE HrefsRead(_)
HrefsRead(n) ==
    IF n = 0 THEN <<>>
    ELSE HrefsRead(n - 1) \o (IF site[visited[n]].loads THEN site[visited[n]].links ELSE <<>>)

\* the hrefs with '/view/' at their first appearance, in order
FirstSeenProductLinks(hrefs) ==
    LET Kept(i) == /\ hrefs[i].t = "str"
                   /\ \E k \in 1..Len(hrefs[i].s) : hrefs[i].s[k] = "/view/"
                   /\ \A j \in 1..(i - 1) : hrefs[j] # hrefs[i]
        kept == {i \in 1..Len(hrefs) : Kept(i)}
        Rank(i) == Cardinality({j \in kept : j <= i})
    IN [r \in 1..Cardinality(kept) |-> hrefs[CHOOSE i \in kept : Rank(i) = r]]

\* C28: the list of scrape_all_product_urls holds no URL twice and only
\* hrefs that include '/view/', in the order they were first seen over the
\* pages; what the earlier pages gave is still there when a later page
\* timed out.
C28_UniqueProductUrlsInOrder ==
    /\ \A i, j \in 1..Len(all_product_urls) :
           all_product_urls[i] = all_product_urls[j] => i = j
    /\ \A i \in 1..Len(all_product_urls) :
           \E k \in 1..Len(all_product_urls[i].s) : all_product_urls[i].s[k] = "/view/"
    /\ all_product_urls = FirstSeenProductLinks(HrefsRead(Len(visited)))

\* a later page timed out after a page gave a link twice and a page gave one
\* already collected, and both URLs are returned
C28_Witness ==
    /\ pc = "urls_returned"
    /\ Len(visited) = 3
    /\ ~site[3].loads
    /\ site[1].links = <<ViewA, PyStr(<<"/products/", "a">>), ViewA>>
    /\ site[2].links = <<ViewB, ViewA>>
    /\ all_product_urls = <<ViewA, ViewB>>

-----------------------------------------------------------------------------
(* C29: the pagination loop *)

OneTo(n) == [i \in 1..n |-> i]

\* a page at which the loop ends
StopsAt(i) == ~site[i].loads \/ site[i].next # "enabled"

\* the first such page of the site
FirstStop == CHOOSE i \in 1..Len(site) : StopsAt(i) /\ \A j \in 1..(i - 1) : ~StopsAt(j)

\* the pages are gone through one after the other and none after a page at
\* which the loop ends
PagingInOrder ==
    /\ page_number = browser_page
    /\ page_number <= FirstStop
    /\ visited = OneTo(IF pc = "paging" THEN page_number - 1 ELSE page_number)
    /\ pc = "urls_returned" => page_number = FirstStop

OnePageAtATime ==
    /\ page_number' \in {page_number, page_number + 1}
    /\ page_number' = page_number + 1 => visited' = Append(visited, page_number)

\* the last page, and no page before it, has a disabled or absent Next button
OnlyLastPageWithoutNext ==
    \A i \in 1..Len(site) : site[i].next = "enabled" <=> i < Len(site)

\* the original statement: on a site whose last page has a disabled or
\* absent Next button the loop ends after every page was visited once
C29_EveryPageVisitedOnce ==
    OnlyLastPageWithoutNext => <>(pc = "urls_returned" /\ visited = OneTo(Len(site)))

\* C29: the loop advances one page per iteration and ends at the first page
\* whose container wait times out or whose Next button is disabled or absent;
\* on a site of finitely many pages whose last page has no enabled Next
\* button it ends, having visited the pages up to that first page once each,
\* which is every page when no wait times out and no earlier page has a
\* disabled or absent Next button.
C29_EndsAtFirstStop ==
    /\ []PagingInOrder
    /\ [][OnePageAtATime]_vars
    /\ <>[](pc = "urls_returned" /\ visited = OneTo(FirstStop))

\* every page of a site of MaxPages pages was visited once, and the loop ended
C29_Witness ==
    /\ pc = "urls_returned"
    /\ Len(site) = MaxPages
    /\ \A i \in 1..Len(site) : site[i].loads
    /\ visited = OneTo(MaxPages)

-----------------------------------------------------------------------------
(* The scraper, src/scripts/scraper.py: scraping the product pages *)

\* one item of the key features: the text of its label, the data-value of
\* its star rating and the text of its value, each PyNone when the element
\* is not there; a text is a sequence of pieces, " min" being one piece
Feature(label, rating, value) == [label |-> label, rating |-> rating, value |-> value]

\* one product page: the exception driver.get raises, or the title, the
\* description, the data-text of every pill (PyNone for a pill without
\* span) and the key features
ProductPage(exc, title, description, pills, features) ==
    [exc |-> exc, title |-> title, description |-> description, pills |-> pills,
     features |-> features]

\* RATING_MAP.get(data_val, "No")
RATING_MAP(data_val) ==
    IF data_val \in {<<"1">>, <<"2">>, <<"3">>, <<"4">>, <<"5">>}
    THEN <<"Y", "e", "s">>
    ELSE <<"N", "o">>

\* the items of str(test_types), a list of texts: 'K', 'P'
RECURSIVE ReprItems(_)
ReprItems(texts) ==
    IF texts = <<>> THEN <<>>
    ELSE <<"'">> \o Head(texts).s \o <<"'">>
         \o (IF Len(texts) > 1 THEN <<",", " ">> ELSE <<>>) \o ReprItems(Tail(texts))

\* the test_type entry: the pills as text, "[]" when a pill has no span
TestTypeOf(pills) ==
    IF \E k \in 1..Len(pills) : pills[k].t # "str"
    THEN PyStr(<<"[", "]">>)
    ELSE PyStr(<<"[">> \o ReprItems(pills) \o <<"]">>)

\* int(value.replace(" min", "").strip()), None on ValueError
DurationOf(value) ==
    LET number == int(PyStr(SelectSeq(value, LAMBDA piece : piece # " min")))
    IN IF number.exc = "none" THEN number.val ELSE PyNone

\* the loop over the key features: an item lacking its label, or its value
\* where it has no rating, is passed over
RECURSIVE KeyFeatures(_, _)
KeyFeatures(items, info) ==
    IF items = <<>> THEN info
    ELSE LET item == Head(items)
             value == IF item.rating.t = "str" THEN RATING_MAP(item.rating.s)
                      ELSE item.value.s
             label == Strip(item.label.s)
         IN IF item.label.t # "str" \/ (item.rating.t # "str" /\ item.value.t # "str")
            THEN KeyFeatures(Tail(items), info)
            ELSE IF label = <<"Duration">>
            THEN KeyFeatures(Tail(items), [info EXCEPT !.duration = DurationOf(Strip(value))])
            ELSE IF label = <<"Adaptive Support">>
            THEN KeyFeatures(Tail(items),
                             [info EXCEPT !.adaptive_support = PyStr(Strip(value))])
            ELSE IF label = <<"Remote Support">>
            THEN KeyFeatures(Tail(items),
                             [info EXCEPT !.remote_support = PyStr(Strip(value))])
            ELSE KeyFeatures(Tail(items), info)

\* scrape_product_page(driver, wait, url) on a page the browser could open
scrape_product_page(url, page) ==
    KeyFeatures(page.features,
                [url |-> url,
                 name |-> page.title,
                 description |-> page.description,
                 test_type |-> TestTypeOf(page.pills),
                 duration |-> PyNone,
                 adaptive_support |-> PyNone,
                 remote_support |-> PyNone])

\* a page with everything on it
FullPage ==
    ProductPage("none", PyStr(<<"n">>), PyStr(<<"d">>), <<PyStr(<<"K">>), PyStr(<<"P">>)>>,
                <<Feature(PyStr(<<"Duration">>), PyNone, PyStr(<<"3", "0", " min">>)),
                  Feature(PyStr(<<"Adaptive Support">>), PyStr(<<"0">>), PyNone),
                  Feature(PyStr(<<"Remote Support">>), PyStr(<<"5">>), PyNone)>>)

\* the pages a product URL can come to: one that cannot be opened, the full
\* one, one with nothing of what is looked for, and one with a pill without
\* span, a duration that is no number, an item without label, an item with
\* neither rating nor value, and another label
ProductPages ==
    {ProductPage("WebDriverException", PyNone, PyNone, <<>>, <<>>),
     FullPage,
     ProductPage("none", PyNone, PyNone, <<>>, <<>>),
     ProductPage("none", PyStr(<<"n">>), PyNone, <<PyStr(<<"K">>), PyNone>>,
                 <<Feature(PyStr(<<"Duration">>), PyNone, PyStr(<<"-">>)),
                   Feature(PyNone, PyNone, PyStr(<<"x">>)),
                   Feature(PyStr(<<"Remote Support">>), PyNone, PyNone),
                   Feature(PyStr(<<"Languages">>), PyNone, PyStr(<<"x">>)),
                   Feature(PyStr(<<"Adaptive Support">>), PyNone, PyStr(<<" ", "x">>))>>)}

InitProducts ==
    /\ pc = "scraping"
    /\ \E n \in 0..MaxUrls : product_urls \in [1..n -> {ViewA, ViewB}]
    /\ fetched = <<>>
    /\ scraped_data = <<>>
    /\ site = <<>>
    /\ browser_page = 0
    /\ page_number = 0
    /\ all_product_urls = <<>>
    /\ visited = <<>>
    /\ ServiceIdle
    /\ RunnerIdle

\* gives up on the first page that raises
ScrapeProductFailsAndStops ==
    /\ pc = "scraping"
    /\ Len(scraped_data) + 1 <= Len(product_urls)
    /\ \E page \in ProductPages :
           /\ page.exc # "none"
           /\ fetched' = Append(fetched, page)
    /\ pc' = "products_returned"
    /\ UNCHANGED <<service, runner, site, browser_page, page_number, all_product_urls,
                   visited, product_urls, scraped_data>>

\* one iteration: the page is scraped, its record appended
ScrapeProduct ==
    /\ pc = "scraping"
    /\ Len(scraped_data) + 1 <= Len(product_urls)
    /\ \E page \in ProductPages :
           /\ page.exc = "none"
           /\ fetched' = Append(fetched, page)
           /\ scraped_data' =
                  Append(scraped_data, scrape_product_page(product_urls[Len(scraped_data) + 1], page))
    /\ UNCHANGED <<service, runner, pc, site, browser_page, page_number, all_product_urls,
                   visited, product_urls>>

\* one iteration: scraping raises, a record of the URL alone is appended
ScrapeProductFails ==
    /\ pc = "scraping"
    /\ Len(scraped_data) + 1 <= Len(product_urls)
    /\ \E page \in ProductPages :
           /\ page.exc # "none"
           /\ fetched' = Append(fetched, page)
           /\ scraped_data' =
                  Append(scraped_data,
                         [url |-> product_urls[Len(scraped_data) + 1],
                          name |-> PyNone,
                          description |-> PyNone,
                          test_type |-> PyStr(<<"[", "]">>),
                          duration |-> PyNone,
                          adaptive_support |-> PyNone,
                          remote_support |-> PyNone])
    /\ UNCHANGED <<service, runner, pc, site, browser_page, page_number, all_product_urls,
                   visited, product_urls>>

\* the loop is through: return scraped_data
ReturnProducts ==
    /\ pc = "scraping"
    /\ Len(scraped_data) + 1 > Len(product_urls)
    /\ pc' = "products_returned"
    /\ UNCHANGED <<service, runner, scraper>>

NextProducts == ScrapeProduct \/ ScrapeProductFails \/ ReturnProducts

SpecProducts == InitProducts /\ [][NextProducts]_vars

-----------------------------------------------------------------------------
(* C30: one record per product URL *)

\* the record has the URL and nothing else
IsPlaceholder(record, url) ==
    /\ record.url = url
    /\ record.name = PyNone
    /\ record.description = PyNone
    /\ record.duration = PyNone
    /\ record.adaptive_support = PyNone
    /\ record.remote_support = PyNone
    /\ record.test_type = PyStr(<<"[", "]">>)

\* C30: scrape_all_products returns one record per input URL, in input
\* order, each with its URL; a URL whose scraping raised has a record with
\* the URL, nulls and test_type "[]", and the URLs after it are scraped too.
C30_OneRecordPerUrl ==
    /\ Len(scraped_data) = Len(fetched)
    /\ Len(scraped_data) <= Len(product_urls)
    /\ \A i \in 1..Len(scraped_data) :
           /\ scraped_data[i].url = product_urls[i]
           /\ fetched[i].exc # "none" => IsPlaceholder(scraped_data[i], product_urls[i])
    /\ pc = "products_returned" => Len(scraped_data) = Len(product_urls)

\* the first page raised, the second was scraped, both have their record
C30_Witness ==
    /\ pc = "products_returned"
    /\ Len(product_urls) = 2
    /\ fetched[1].exc # "none"
    /\ fetched[2] = FullPage
    /\ IsPlaceholder(scraped_data[1], product_urls[1])
    /\ scraped_data[2].duration = PyInt(30)
    /\ scraped_data[2].adaptive_support = PyStr(<<"N", "o">>)

====
